---- MODULE Spec2Model ----
(***************************************************************************)
(* Model of the reconciliation run of aws-sso-google-sync:                 *)
(*   internal/sync.go            SyncGroupsUsers and the diff functions    *)
(*   internal/aws/aws_client.go  the client that writes the SCIM store and *)
(*                               the DynamoDB tables                       *)
(*   (DynamoDB client)           the Users table and the Groups table of   *)
(*                               (groupName, username) rows                *)
(* The SCIM identity store and the Google directory are collaborators      *)
(* whose code is not part of the sources; they are modelled from the       *)
(* interface contracts of the specification (section 6).                   *)
(***************************************************************************)
EXTENDS Naturals, Sequences, FiniteSets

VARIABLES
  google,        \* the upstream directory: its groups, their members, its users
  cfg,           \* config.Config: DryRun, IgnoreUsers, IgnoreGroups, IncludeGroups
  scim,          \* the SCIM identity store: users, groups, memberships
  ddb,           \* the DynamoDB tables: users, and groups (rows of group and user)
  pc,            \* the position of the run
  i, j,          \* the loop indices of the step the run is in
  snap,          \* what the run read: googleGroups, googleUsers, googleGroupsUsers,
                 \* awsGroups, awsUsers, awsGroupsUsers
  ops,           \* the lists of changes computed from snap
  newAwsGroups,  \* the groups the run created
  calls,         \* the mutating calls the run issued to the two stores, in order
  errAt,         \* NoError, or the length of calls when a collaborator call first failed
  faults,        \* collaborator calls that failed for external reasons so far
  changes,       \* edits of the upstream directory so far
  prevOk,        \* the last run that returned completed without error, and the
                 \* upstream directory is as it was then
  torn,          \* history: the pairs (user, group) whose AddUserToGroup or
                 \* RemoveUserFromGroup stopped between its two writes, with no
                 \* completed run and no upstream edit since
  aborted        \* history: the last run that returned was stopped by a failure

vars == <<google, cfg, scim, ddb, pc, i, j, snap, ops, newAwsGroups, calls, errAt,
          faults, changes, prevOk, torn, aborted>>

(***************************************************************************)
(* Universes and bounds                                                    *)
(***************************************************************************)
UserOrder == <<"a@x.com", "b@x.com">>
GroupOrder == <<"eng@x.com", "ops@x.com">>
UserEmails == {UserOrder[n] : n \in DOMAIN UserOrder}
GroupEmails == {GroupOrder[n] : n \in DOMAIN GroupOrder}
Names == {"A", "B"}

\* at most this many collaborator calls fail for external reasons in a behaviour
MaxFaults == 1
\* at most this many edits of the upstream directory in a behaviour
MaxChanges == 1

(***************************************************************************)
(* Sequence helpers                                                        *)
(***************************************************************************)
Range(s) == {s[n] : n \in DOMAIN s}

\* the elements of set S in the order of the sequence order
SeqOfSet(S, order) == SelectSeq(order, LAMBDA x : x \in S)

\* every sequence that lists each element of S exactly once
Perms(S) == {s \in [1..Cardinality(S) -> S] : Range(s) = S}

\* every sequence over S without repetition
DistinctSeqs(S) == UNION {Perms(T) : T \in SUBSET S}

(***************************************************************************)
(* Records of the two sides                                                *)
(***************************************************************************)
\* aws.NewUser(firstName, lastName, email, active)
NewUser(givenName, familyName, email, active) ==
  [Username |-> email, GivenName |-> givenName, FamilyName |-> familyName, Active |-> active]

\* aws.NewGroup(displayName): a group without members
NewGroup(displayName) == [DisplayName |-> displayName, Members |-> <<>>]

\* admin.User of the Google directory
GoogleUser(email, givenName, familyName, suspended) ==
  [PrimaryEmail |-> email, GivenName |-> givenName, FamilyName |-> familyName, Suspended |-> suspended]

\* the display name of the Google group with this address (the part before the @)
GroupName(email) == IF email = "eng@x.com" THEN "eng" ELSE "ops"

\* admin.Group of the Google directory
GoogleGroup(email) == [Email |-> email, Name |-> GroupName(email)]

\* mutant: the groups are matched by the Google group's name, not its address
googleGroupKeyIsName(group) == group.Name

googleGroupKey(group) == group.Email

awsGroupKey(group) == group.DisplayName

(***************************************************************************)
(* The diff functions (pure)                                               *)
(***************************************************************************)
\* awsMap[k] after "for _, awsUser := range awsUsers { awsMap[awsUser.Username] = awsUser }":
\* the last user of the list with that name
awsUserMap(awsUsers, k) ==
  awsUsers[CHOOSE n \in DOMAIN awsUsers :
             /\ awsUsers[n].Username = k
             /\ \A m \in DOMAIN awsUsers : awsUsers[m].Username = k => m <= n]

\* awsMap[k] after "for _, awsGroup := range awsGroups { awsMap[awsGroupKey(awsGroup)] = awsGroup }"
awsGroupMap(awsGroups, k) ==
  awsGroups[CHOOSE n \in DOMAIN awsGroups :
              /\ awsGroupKey(awsGroups[n]) = k
              /\ \A m \in DOMAIN awsGroups : awsGroupKey(awsGroups[m]) = k => m <= n]

\* mutant: the suspended flag is not compared
userNeedsUpdateNoActive(awsUser, gUser) ==
  \/ awsUser.GivenName # gUser.GivenName
  \/ awsUser.FamilyName # gUser.FamilyName

\* the condition under which a user found on both sides is put in update
userNeedsUpdate(awsUser, gUser) ==
  \/ awsUser.Active = gUser.Suspended
  \/ awsUser.GivenName # gUser.GivenName
  \/ awsUser.FamilyName # gUser.FamilyName

\* mutant: the active flag copies the suspended flag
awsUserFromGoogleSamePolarity(gUser) ==
  NewUser(gUser.GivenName, gUser.FamilyName, gUser.PrimaryEmail, gUser.Suspended)

\* the record built for a user to add or to update
awsUserFromGoogle(gUser) ==
  NewUser(gUser.GivenName, gUser.FamilyName, gUser.PrimaryEmail, ~gUser.Suspended)

\* the record built for a user to delete
awsUserCopy(awsUser) ==
  NewUser(awsUser.GivenName, awsUser.FamilyName, awsUser.Username, awsUser.Active)

\* mutant: a user found downstream is also put in add
getUserOperationsAddsFound(awsUsers, googleUsers) ==
  LET awsKeys == {awsUsers[n].Username : n \in DOMAIN awsUsers}
      googleMap == {googleUsers[n].PrimaryEmail : n \in DOMAIN googleUsers}
      found(g) == g.PrimaryEmail \in awsKeys
      toUpdate == SelectSeq(googleUsers,
                    LAMBDA g : found(g) /\ userNeedsUpdate(awsUserMap(awsUsers, g.PrimaryEmail), g))
      toKeep == SelectSeq(googleUsers,
                  LAMBDA g : found(g) /\ ~userNeedsUpdate(awsUserMap(awsUsers, g.PrimaryEmail), g))
      toDelete == SelectSeq(awsUsers, LAMBDA u : u.Username \notin googleMap)
  IN [add    |-> [n \in DOMAIN googleUsers |-> awsUserFromGoogle(googleUsers[n])],
      update |-> [n \in DOMAIN toUpdate |-> awsUserFromGoogle(toUpdate[n])],
      equals |-> [n \in DOMAIN toKeep |-> awsUserMap(awsUsers, toKeep[n].PrimaryEmail)],
      delete |-> [n \in DOMAIN toDelete |-> awsUserCopy(toDelete[n])]]

\* mutant: a user that needs an update is deleted and created again
getUserOperationsReplacesUpdated(awsUsers, googleUsers) ==
  LET awsKeys == {awsUsers[n].Username : n \in DOMAIN awsUsers}
      googleMap == {googleUsers[n].PrimaryEmail : n \in DOMAIN googleUsers}
      found(g) == g.PrimaryEmail \in awsKeys
      stale(g) == found(g) /\ userNeedsUpdate(awsUserMap(awsUsers, g.PrimaryEmail), g)
      toAdd == SelectSeq(googleUsers, LAMBDA g : ~found(g) \/ stale(g))
      toKeep == SelectSeq(googleUsers, LAMBDA g : found(g) /\ ~stale(g))
      toDelete == SelectSeq(awsUsers,
                    LAMBDA u : \/ u.Username \notin googleMap
                               \/ \E n \in DOMAIN googleUsers :
                                    /\ googleUsers[n].PrimaryEmail = u.Username
                                    /\ stale(googleUsers[n]))
  IN [add    |-> [n \in DOMAIN toAdd |-> awsUserFromGoogle(toAdd[n])],
      update |-> <<>>,
      equals |-> [n \in DOMAIN toKeep |-> awsUserMap(awsUsers, toKeep[n].PrimaryEmail)],
      delete |-> [n \in DOMAIN toDelete |-> awsUserCopy(toDelete[n])]]

getUserOperations(awsUsers, googleUsers) ==
  LET awsKeys == {awsUsers[n].Username : n \in DOMAIN awsUsers}
      googleMap == {googleUsers[n].PrimaryEmail : n \in DOMAIN googleUsers}
      found(g) == g.PrimaryEmail \in awsKeys
      toAdd == SelectSeq(googleUsers, LAMBDA g : ~found(g))
      toUpdate == SelectSeq(googleUsers,
                    LAMBDA g : found(g) /\ userNeedsUpdate(awsUserMap(awsUsers, g.PrimaryEmail), g))
      toKeep == SelectSeq(googleUsers,
                  LAMBDA g : found(g) /\ ~userNeedsUpdate(awsUserMap(awsUsers, g.PrimaryEmail), g))
      toDelete == SelectSeq(awsUsers, LAMBDA u : u.Username \notin googleMap)
  IN [add    |-> [n \in DOMAIN toAdd |-> awsUserFromGoogle(toAdd[n])],
      update |-> [n \in DOMAIN toUpdate |-> awsUserFromGoogle(toUpdate[n])],
      equals |-> [n \in DOMAIN toKeep |-> awsUserMap(awsUsers, toKeep[n].PrimaryEmail)],
      delete |-> [n \in DOMAIN toDelete |-> awsUserCopy(toDelete[n])]]

getGroupOperations(awsGroups, googleGroups) ==
  LET awsKeys == {awsGroupKey(awsGroups[n]) : n \in DOMAIN awsGroups}
      googleMap == {googleGroupKey(googleGroups[n]) : n \in DOMAIN googleGroups}
      toAdd == SelectSeq(googleGroups, LAMBDA g : googleGroupKey(g) \notin awsKeys)
      toKeep == SelectSeq(googleGroups, LAMBDA g : googleGroupKey(g) \in awsKeys)
      toDelete == SelectSeq(awsGroups, LAMBDA a : awsGroupKey(a) \notin googleMap)
  IN [add    |-> [n \in DOMAIN toAdd |-> NewGroup(googleGroupKey(toAdd[n]))],
      equals |-> [n \in DOMAIN toKeep |-> awsGroupMap(awsGroups, googleGroupKey(toKeep[n]))],
      delete |-> [n \in DOMAIN toDelete |-> NewGroup(awsGroupKey(toDelete[n]))]]

\* mutant: a member is looked up among the upstream members of every group
getGroupUsersOperationsAnyGroup(gGroupsUsers, awsGroupsUsers) ==
  LET all == UNION {{gGroupsUsers[k][n].PrimaryEmail : n \in DOMAIN gGroupsUsers[k]} :
                      k \in DOMAIN gGroupsUsers}
  IN [delete |-> [k \in DOMAIN awsGroupsUsers |->
                    SelectSeq(awsGroupsUsers[k], LAMBDA u : u.Username \notin all)],
      equals |-> [k \in DOMAIN awsGroupsUsers |->
                    SelectSeq(awsGroupsUsers[k], LAMBDA u : u.Username \in all)]]

\* gGroupsUsers and awsGroupsUsers are maps from a group key to a list of users;
\* a key without an entry in a result reads as the empty list, as a Go map does
getGroupUsersOperations(gGroupsUsers, awsGroupsUsers) ==
  LET mbG(k) == IF k \in DOMAIN gGroupsUsers
                THEN {gGroupsUsers[k][n].PrimaryEmail : n \in DOMAIN gGroupsUsers[k]}
                ELSE {}
  IN [delete |-> [k \in DOMAIN awsGroupsUsers |->
                    SelectSeq(awsGroupsUsers[k], LAMBDA u : u.Username \notin mbG(k))],
      equals |-> [k \in DOMAIN awsGroupsUsers |->
                    SelectSeq(awsGroupsUsers[k], LAMBDA u : u.Username \in mbG(k))]]

(***************************************************************************)
(* Initial values shared by the specifications                             *)
(***************************************************************************)
NoError == 1000

EmptySnap ==
  [googleGroups |-> <<>>, googleUsers |-> <<>>, googleGroupsUsers |-> <<>>,
   awsGroups |-> <<>>, awsUsers |-> <<>>, awsGroupsUsers |-> <<>>]

EmptyOps ==
  [addU |-> <<>>, delU |-> <<>>, updU |-> <<>>, eqU |-> <<>>,
   addG |-> <<>>, delG |-> <<>>, eqG |-> <<>>]

EmptyGoogle ==
  [groups |-> {}, members |-> [g \in GroupEmails |-> {}],
   users |-> [u \in UserEmails |-> [GivenName |-> "A", FamilyName |-> "A", Suspended |-> FALSE]]]

DefaultCfg == [DryRun |-> FALSE, IgnoreUsers |-> {}, IgnoreGroups |-> {}, IncludeGroups |-> {}]

EmptyScim == [users |-> <<>>, groups |-> {}, members |-> {}]

EmptyDdb == [users |-> {}, groups |-> {}]

(***************************************************************************)
(* SpecDiff: the diff functions applied to every pair of lists over the    *)
(* universes, each list naming a key at most once (GetUsers and GetGroups  *)
(* read keyed tables, getGoogleGroupsAndUsers lists each member once).     *)
(***************************************************************************)
UserAttrs == [GivenName : Names, FamilyName : Names, Flag : BOOLEAN]

AwsUserLists ==
  {[n \in DOMAIN ks |-> NewUser(f[ks[n]].GivenName, f[ks[n]].FamilyName, ks[n], f[ks[n]].Flag)] :
     ks \in DistinctSeqs(UserEmails), f \in [UserEmails -> UserAttrs]}

GoogleUserLists ==
  {[n \in DOMAIN ks |-> GoogleUser(ks[n], f[ks[n]].GivenName, f[ks[n]].FamilyName, f[ks[n]].Flag)] :
     ks \in DistinctSeqs(UserEmails), f \in [UserEmails -> UserAttrs]}

\* downstream display names: the upstream addresses, and one upstream name
DisplayNames == GroupEmails \cup {"eng"}

AwsGroupLists ==
  {[n \in DOMAIN ks |-> [DisplayName |-> ks[n], Members |-> m[ks[n]]]] :
     ks \in DistinctSeqs(DisplayNames), m \in [DisplayNames -> {<<>>, <<"a@x.com">>}]}

GoogleGroupLists ==
  {[n \in DOMAIN ks |-> GoogleGroup(ks[n])] : ks \in DistinctSeqs(GroupEmails)}

InitDiff ==
  /\ google = EmptyGoogle
  /\ cfg = DefaultCfg
  /\ scim = EmptyScim
  /\ ddb = EmptyDdb
  /\ pc = "diff"
  /\ i = 1
  /\ j = 1
  /\ \/ \E a \in AwsUserLists, g \in GoogleUserLists :
          snap = [EmptySnap EXCEPT !.awsUsers = a, !.googleUsers = g]
     \/ \E a \in AwsGroupLists, g \in GoogleGroupLists :
          snap = [EmptySnap EXCEPT !.awsGroups = a, !.googleGroups = g]
  /\ ops = EmptyOps
  /\ newAwsGroups = <<>>
  /\ calls = <<>>
  /\ errAt = NoError
  /\ faults = 0
  /\ changes = 0
  /\ prevOk = FALSE
  /\ torn = {}
  /\ aborted = FALSE

\* the two diff calls of SyncGroupsUsers
ComputeOps(s) ==
  LET uo == getUserOperations(s.awsUsers, s.googleUsers)
      go == getGroupOperations(s.awsGroups, s.googleGroups)
  IN [addU |-> uo.add, delU |-> uo.delete, updU |-> uo.update, eqU |-> uo.equals,
      addG |-> go.add, delG |-> go.delete, eqG |-> go.equals]

Diff ==
  /\ pc = "diff"
  /\ pc' = "diffed"
  /\ ops' = ComputeOps(snap)
  /\ UNCHANGED <<google, cfg, scim, ddb, i, j, snap, newAwsGroups, calls, errAt,
                 faults, changes, prevOk, torn, aborted>>

NextDiff == Diff

SpecDiff == InitDiff /\ [][NextDiff]_vars

(***************************************************************************)
(* The SCIM identity store (ProvisioningClient of the specification):      *)
(* users by email, groups by display name, memberships as pairs            *)
(***************************************************************************)
Put(f, k, v) == [x \in DOMAIN f \cup {k} |-> IF x = k THEN v ELSE f[x]]

Drop(f, k) == [x \in DOMAIN f \ {k} |-> f[x]]

ScimHasUser(sc, email) == email \in DOMAIN sc.users

ScimHasGroup(sc, name) == name \in sc.groups

ScimCreateUser(sc, u) == [sc EXCEPT !.users = Put(sc.users, u.Username, u)]

ScimUpdateUser(sc, u) == [sc EXCEPT !.users = Put(sc.users, u.Username, u)]

ScimDeleteUser(sc, u) ==
  [sc EXCEPT !.users = Drop(sc.users, u.Username),
             !.members = {m \in sc.members : m[1] # u.Username}]

ScimCreateGroup(sc, g) == [sc EXCEPT !.groups = sc.groups \cup {g.DisplayName}]

ScimDeleteGroup(sc, g) ==
  [sc EXCEPT !.groups = sc.groups \ {g.DisplayName},
             !.members = {m \in sc.members : m[2] # g.DisplayName}]

ScimAddUserToGroup(sc, u, g) ==
  [sc EXCEPT !.members = sc.members \cup {<<u.Username, g.DisplayName>>}]

ScimRemoveUserFromGroup(sc, u, g) ==
  [sc EXCEPT !.members = sc.members \ {<<u.Username, g.DisplayName>>}]

(***************************************************************************)
(* The DynamoDB client: the Users table holds user names, the Groups table *)
(* rows of (groupName, username)                                           *)
(***************************************************************************)
\* the names GetGroups returns: the distinct groupName of the rows
DdbGroupNames(db) == {r[1] : r \in db.groups}

\* GetGroupMembers: the rows of the group, in the order of the sort key
DdbGetGroupMembers(db, g) ==
  SeqOfSet({r[2] : r \in {x \in db.groups : x[1] = g.DisplayName}}, UserOrder)

\* GetUsers: the scan of the Users table
DdbGetUsers(db) == SeqOfSet(db.users, UserOrder)

DdbIsUserInGroup(db, u, g) == <<g.DisplayName, u.Username>> \in db.groups

DdbAddUserToGroup(db, u, g) ==
  [db EXCEPT !.groups = db.groups \cup {<<g.DisplayName, u.Username>>}]

\* mutant: DeleteItem leaves the row
DdbRemoveUserFromGroupKeepsRow(db, u, g) == db

DdbRemoveUserFromGroup(db, u, g) ==
  [db EXCEPT !.groups = db.groups \ {<<g.DisplayName, u.Username>>}]

DdbCreateUser(db, u) == [db EXCEPT !.users = db.users \cup {u.Username}]

DdbDeleteUser(db, u) == [db EXCEPT !.users = db.users \ {u.Username}]

(***************************************************************************)
(* awsClient: one call on the two stores.  f is the collaborator call of   *)
(* the operation that fails for an external reason (0: none).  A result:   *)
(*   scim, ddb  the stores afterwards                                      *)
(*   err        the operation returned an error                            *)
(*   log        the mutating calls it issued, in order                     *)
(*   errIdx     how many of them were issued when a collaborator call      *)
(*              first returned an error (NoError: none did)                *)
(*   fired      the call numbered f was made                               *)
(***************************************************************************)
Call(op, store, user, group) == [op |-> op, store |-> store, user |-> user, group |-> group]

Result(sc, db, err, log, errIdx, fired) ==
  [scim |-> sc, ddb |-> db, err |-> err, log |-> log, errIdx |-> errIdx, fired |-> fired]

\* mutant: the SCIM store is written before the row of the Groups table
\* (calls: 1 dynamoDBClient.IsUserInGroup, 2 client.AddUserToGroup,
\*         3 dynamoDBClient.AddUserToGroup)
awsAddUserToGroupScimFirst(sc, db, u, g, f) ==
  LET isUserInDynamoDBGroup == f # 1 /\ DdbIsUserInGroup(db, u, g)
      c1 == Call("AddUserToGroup", "ddb", u.Username, g.DisplayName)
      c2 == Call("AddUserToGroup", "scim", u.Username, g.DisplayName)
      post == IF isUserInDynamoDBGroup THEN <<>> ELSE <<c1>>
      db1 == IF isUserInDynamoDBGroup THEN db ELSE DdbAddUserToGroup(db, u, g)
      sc1 == ScimAddUserToGroup(sc, u, g)
  IN CASE f = 2 -> Result(sc, db, TRUE, <<c2>>, 1, TRUE)
       [] f = 3 -> Result(sc1, db, TRUE, <<c2, c1>>, 2, ~isUserInDynamoDBGroup)
       [] OTHER -> Result(sc1, db1, FALSE, <<c2>> \o post,
                          IF f = 1 THEN 0 ELSE NoError, f \in {0, 1})

\* calls: 1 dynamoDBClient.IsUserInGroup, 2 dynamoDBClient.AddUserToGroup,
\*        3 client.AddUserToGroup
awsAddUserToGroup(sc, db, u, g, f) ==
  LET \* IsUserInGroup returns false with its error, and the error is overwritten
      isUserInDynamoDBGroup == f # 1 /\ DdbIsUserInGroup(db, u, g)
      c1 == Call("AddUserToGroup", "ddb", u.Username, g.DisplayName)
      c2 == Call("AddUserToGroup", "scim", u.Username, g.DisplayName)
      pre == IF isUserInDynamoDBGroup THEN <<>> ELSE <<c1>>
      db1 == IF isUserInDynamoDBGroup THEN db ELSE DdbAddUserToGroup(db, u, g)
  IN CASE f = 2 -> Result(sc, db, TRUE, <<c1>>, 1, ~isUserInDynamoDBGroup)
       [] f = 3 -> Result(sc, db1, TRUE, pre \o <<c2>>, Len(pre) + 1, TRUE)
       [] OTHER -> Result(ScimAddUserToGroup(sc, u, g), db1, FALSE, pre \o <<c2>>,
                          IF f = 1 THEN 0 ELSE NoError, f \in {0, 1})

\* mutant: a successful removal leaves the row of the Groups table
awsRemoveUserFromGroupKeepsRow(sc, db, u, g, f) ==
  LET c1 == Call("RemoveUserFromGroup", "scim", u.Username, g.DisplayName)
      c2 == Call("RemoveUserFromGroup", "ddb", u.Username, g.DisplayName)
      sc1 == ScimRemoveUserFromGroup(sc, u, g)
  IN CASE f = 1 -> Result(sc, db, TRUE, <<c1>>, 1, TRUE)
       [] f = 2 -> Result(sc1, db, TRUE, <<c1, c2>>, 2, TRUE)
       [] OTHER -> Result(sc1, db, FALSE, <<c1, c2>>, NoError, f = 0)

\* calls: 1 client.RemoveUserFromGroup, 2 dynamoDBClient.RemoveUserFromGroup
awsRemoveUserFromGroup(sc, db, u, g, f) ==
  LET c1 == Call("RemoveUserFromGroup", "scim", u.Username, g.DisplayName)
      c2 == Call("RemoveUserFromGroup", "ddb", u.Username, g.DisplayName)
      sc1 == ScimRemoveUserFromGroup(sc, u, g)
  IN CASE f = 1 -> Result(sc, db, TRUE, <<c1>>, 1, TRUE)
       [] f = 2 -> Result(sc1, db, TRUE, <<c1, c2>>, 2, TRUE)
       [] OTHER -> Result(sc1, DdbRemoveUserFromGroup(db, u, g), FALSE, <<c1, c2>>, NoError, f = 0)

\* calls: 1 dynamoDBClient.CreateUser, 2 client.CreateUser
awsCreateUser(sc, db, u, f) ==
  LET c1 == Call("CreateUser", "ddb", u.Username, "")
      c2 == Call("CreateUser", "scim", u.Username, "")
      db1 == DdbCreateUser(db, u)
  IN CASE f = 1 -> Result(sc, db, TRUE, <<c1>>, 1, TRUE)
       [] f = 2 -> Result(sc, db1, TRUE, <<c1, c2>>, 2, TRUE)
       [] OTHER -> Result(ScimCreateUser(sc, u), db1, FALSE, <<c1, c2>>, NoError, f = 0)

\* calls: 1 client.UpdateUser
awsUpdateUser(sc, db, u, f) ==
  LET c1 == Call("UpdateUser", "scim", u.Username, "")
  IN CASE f = 1 -> Result(sc, db, TRUE, <<c1>>, 1, TRUE)
       [] OTHER -> Result(ScimUpdateUser(sc, u), db, FALSE, <<c1>>, NoError, f = 0)

\* mutant: a successful DeleteUser leaves the item of the Users table
awsDeleteUserKeepsItem(sc, db, u, f) ==
  LET c1 == Call("DeleteUser", "scim", u.Username, "")
      c2 == Call("DeleteUser", "ddb", u.Username, "")
      sc1 == ScimDeleteUser(sc, u)
  IN CASE f = 1 -> Result(sc, db, TRUE, <<c1>>, 1, TRUE)
       [] f = 2 -> Result(sc1, db, TRUE, <<c1, c2>>, 2, TRUE)
       [] OTHER -> Result(sc1, db, FALSE, <<c1, c2>>, NoError, f = 0)

\* calls: 1 client.DeleteUser, 2 dynamoDBClient.DeleteUser
awsDeleteUser(sc, db, u, f) ==
  LET c1 == Call("DeleteUser", "scim", u.Username, "")
      c2 == Call("DeleteUser", "ddb", u.Username, "")
      sc1 == ScimDeleteUser(sc, u)
  IN CASE f = 1 -> Result(sc, db, TRUE, <<c1>>, 1, TRUE)
       [] f = 2 -> Result(sc1, db, TRUE, <<c1, c2>>, 2, TRUE)
       [] OTHER -> Result(sc1, DdbDeleteUser(db, u), FALSE, <<c1, c2>>, NoError, f = 0)

\* calls: 1 client.CreateGroup
awsCreateGroup(sc, db, g, f) ==
  LET c1 == Call("CreateGroup", "scim", "", g.DisplayName)
  IN CASE f = 1 -> Result(sc, db, TRUE, <<c1>>, 1, TRUE)
       [] OTHER -> Result(ScimCreateGroup(sc, g), db, FALSE, <<c1>>, NoError, f = 0)

\* mutant: the rows of the group stay in the Groups table
awsDeleteGroupKeepsRows(sc, db, g, f) ==
  LET c1 == Call("DeleteGroup", "scim", "", g.DisplayName)
      sc1 == ScimDeleteGroup(sc, g)
  IN CASE f = 0 -> Result(sc1, db, FALSE, <<c1>>, NoError, TRUE)
       [] f = 1 -> Result(sc, db, TRUE, <<c1>>, 1, TRUE)
       [] f = 2 -> Result(sc1, db, TRUE, <<c1>>, 1, TRUE)
       [] OTHER -> Result(sc, db, TRUE, <<>>, 0, FALSE)

\* calls: 1 client.DeleteGroup, 2 dynamoDBClient.GetGroupMembers,
\*        2 + n: dynamoDBClient.RemoveUserFromGroup of the n-th member
awsDeleteGroup(sc, db, g, f) ==
  LET c1 == Call("DeleteGroup", "scim", "", g.DisplayName)
      members == DdbGetGroupMembers(db, g)
      rm(n) == Call("RemoveUserFromGroup", "ddb", members[n], g.DisplayName)
      \* the removals issued when the n-th is the last one issued
      rms(n) == [m \in 1..n |-> rm(m)]
      \* the table after the first n members were removed
      dbAfter(n) == [db EXCEPT !.groups =
                       db.groups \ {<<g.DisplayName, members[m]>> : m \in 1..n}]
      sc1 == ScimDeleteGroup(sc, g)
  IN CASE f = 0 -> Result(sc1, dbAfter(Len(members)), FALSE, <<c1>> \o rms(Len(members)),
                          NoError, TRUE)
       [] f = 1 -> Result(sc, db, TRUE, <<c1>>, 1, TRUE)
       [] f = 2 -> Result(sc1, db, TRUE, <<c1>>, 1, TRUE)
       [] OTHER -> IF f - 2 <= Len(members)
                   THEN Result(sc1, dbAfter(f - 3), TRUE, <<c1>> \o rms(f - 2), f - 1, TRUE)
                   ELSE Result(sc, db, TRUE, <<>>, 0, FALSE)

\* GetGroups: the groups of the Groups table, each looked up in the SCIM store;
\* names is the order in which the table's group names are listed
awsGetGroups(sc, names) ==
  [err |-> \E n \in DOMAIN names : ~ScimHasGroup(sc, names[n]),
   groups |-> [n \in DOMAIN names |-> NewGroup(names[n])]]

\* GetUsers: the users of the Users table, each looked up in the SCIM store
awsGetUsers(sc, db) ==
  LET names == DdbGetUsers(db)
  IN [err |-> \E n \in DOMAIN names : ~ScimHasUser(sc, names[n]),
      users |-> [n \in DOMAIN names |->
                   IF ScimHasUser(sc, names[n]) THEN sc.users[names[n]]
                   ELSE NewUser("", "", names[n], FALSE)]]

(***************************************************************************)
(* The read phase of SyncGroupsUsers                                       *)
(***************************************************************************)
ignoreUser(c, name) == name \in c.IgnoreUsers

ignoreGroup(c, name) == name \in c.IgnoreGroups

Lookup(m, k) == IF k \in DOMAIN m THEN m[k] ELSE <<>>

\* google.GetGroups, without the ignored groups
filteredGoogleGroups(gl, c) ==
  LET listed == SeqOfSet(gl.groups, GroupOrder)
      kept == SelectSeq(listed, LAMBDA e : ~ignoreGroup(c, e))
  IN [n \in DOMAIN kept |-> GoogleGroup(kept[n])]

\* mutant: no member is left out
keptMembersUnfiltered(gl, c, g) == SeqOfSet(gl.members[g.Email], UserOrder)

\* the members of a group that getGoogleGroupsAndUsers keeps
keptMembers(gl, c, g) ==
  SelectSeq(SeqOfSet(gl.members[g.Email], UserOrder), LAMBDA e : ~ignoreUser(c, e))

\* the keys of gUniqUsers
uniqueGoogleUsers(googleGroups, gl, c) ==
  UNION {Range(keptMembers(gl, c, googleGroups[n])) : n \in DOMAIN googleGroups}

\* order: the order in which the range over the map gUniqUsers lists its keys
getGoogleGroupsAndUsers(googleGroups, gl, c, order) ==
  LET user(e) == GoogleUser(e, gl.users[e].GivenName, gl.users[e].FamilyName, gl.users[e].Suspended)
      members(g) == keptMembers(gl, c, g)
      groups == {googleGroups[n] : n \in {m \in DOMAIN googleGroups :
                                            ~ignoreGroup(c, googleGroups[m].Email)}}
  IN [users |-> [n \in DOMAIN order |-> user(order[n])],
      groupsUsers |-> [k \in {googleGroupKey(g) : g \in groups} |->
                         LET g == CHOOSE x \in groups : googleGroupKey(x) = k
                         IN [n \in DOMAIN members(g) |-> user(members(g)[n])]]]

getAWSGroupsAndUsers(awsGroups, awsUsers, db) ==
  [k \in {awsGroups[n].DisplayName : n \in DOMAIN awsGroups} |->
     SelectSeq(awsUsers, LAMBDA u : DdbIsUserInGroup(db, u, NewGroup(k)))]

(***************************************************************************)
(* The position of the run: the step (pc), the element of its list (i),    *)
(* and the element of the inner list (j)                                   *)
(***************************************************************************)
Returned == {"done", "failed"}

\* mutant: the groups the run created are left out
allAwsGroupsWithoutNew(s, nag) == s.awsGroups

\* mutant: the populate loop covers the created groups only
allAwsGroupsOnlyNew(s, nag) == nag

allAwsGroups(s, nag) == s.awsGroups \o nag

\* mutant: the second result of getGroupUsersOperations is taken
deleteUsersFromGroupTakesEquals(s) ==
  getGroupUsersOperations(s.googleGroupsUsers, s.awsGroupsUsers).equals

\* mutant: every downstream member of the snapshot is to be removed
deleteUsersFromGroupAll(s) == s.awsGroupsUsers

deleteUsersFromGroup(s) == getGroupUsersOperations(s.googleGroupsUsers, s.awsGroupsUsers).delete

\* the first position at or after (p, a, b) at which a loop body runs
RECURSIVE Normalize(_, _, _, _, _, _)

\* mutant: for an equal group the members are removed before the members are added
NormalizeRemovesBeforeAdds(p, a, b, o, s, nag) ==
  CASE p = "delUsers" ->
         IF a <= Len(o.delU) THEN <<p, a, 1>> ELSE Normalize("updUsers", 1, 1, o, s, nag)
    [] p = "updUsers" ->
         IF a <= Len(o.updU) THEN <<p, a, 1>> ELSE Normalize("addUsers", 1, 1, o, s, nag)
    [] p = "addUsers" ->
         IF a <= Len(o.addU) THEN <<p, a, 1>> ELSE Normalize("addGroups", 1, 1, o, s, nag)
    [] p = "addGroups" ->
         IF a <= Len(o.addG) THEN <<p, a, 1>> ELSE Normalize("populate", 1, 1, o, s, nag)
    [] p = "populate" ->
         IF a > Len(allAwsGroups(s, nag)) THEN Normalize("equalRemove", 1, 1, o, s, nag)
         ELSE LET k == awsGroupKey(allAwsGroups(s, nag)[a])
              IN IF k \in DOMAIN s.googleGroupsUsers /\ b <= Len(s.googleGroupsUsers[k])
                 THEN <<p, a, b>>
                 ELSE Normalize("populate", a + 1, 1, o, s, nag)
    [] p = "equalRemove" ->
         IF a > Len(o.eqG) THEN Normalize("delGroups", 1, 1, o, s, nag)
         ELSE IF b <= Len(Lookup(deleteUsersFromGroup(s), awsGroupKey(o.eqG[a])))
              THEN <<p, a, b>>
              ELSE Normalize("equalAdd", a, 1, o, s, nag)
    [] p = "equalAdd" ->
         IF b <= Len(Lookup(s.googleGroupsUsers, awsGroupKey(o.eqG[a])))
         THEN <<p, a, b>>
         ELSE Normalize("equalRemove", a + 1, 1, o, s, nag)
    [] p = "delGroups" ->
         IF a <= Len(o.delG) THEN <<p, a, 1>> ELSE <<"done", 1, 1>>
    [] OTHER -> <<p, a, b>>

\* mutant: the groups deleted upstream are deleted before the members are added
NormalizeDeletesGroupsEarly(p, a, b, o, s, nag) ==
  CASE p = "delUsers" ->
         IF a <= Len(o.delU) THEN <<p, a, 1>> ELSE Normalize("updUsers", 1, 1, o, s, nag)
    [] p = "updUsers" ->
         IF a <= Len(o.updU) THEN <<p, a, 1>> ELSE Normalize("addUsers", 1, 1, o, s, nag)
    [] p = "addUsers" ->
         IF a <= Len(o.addU) THEN <<p, a, 1>> ELSE Normalize("addGroups", 1, 1, o, s, nag)
    [] p = "addGroups" ->
         IF a <= Len(o.addG) THEN <<p, a, 1>> ELSE Normalize("delGroups", 1, 1, o, s, nag)
    [] p = "delGroups" ->
         IF a <= Len(o.delG) THEN <<p, a, 1>> ELSE Normalize("populate", 1, 1, o, s, nag)
    [] p = "populate" ->
         IF a > Len(allAwsGroups(s, nag)) THEN Normalize("equalAdd", 1, 1, o, s, nag)
         ELSE LET k == awsGroupKey(allAwsGroups(s, nag)[a])
              IN IF k \in DOMAIN s.googleGroupsUsers /\ b <= Len(s.googleGroupsUsers[k])
                 THEN <<p, a, b>>
                 ELSE Normalize("populate", a + 1, 1, o, s, nag)
    [] p = "equalAdd" ->
         IF a > Len(o.eqG) THEN <<"done", 1, 1>>
         ELSE IF b <= Len(Lookup(s.googleGroupsUsers, awsGroupKey(o.eqG[a])))
              THEN <<p, a, b>>
              ELSE Normalize("equalRemove", a, 1, o, s, nag)
    [] p = "equalRemove" ->
         IF b <= Len(Lookup(deleteUsersFromGroup(s), awsGroupKey(o.eqG[a])))
         THEN <<p, a, b>>
         ELSE Normalize("equalAdd", a + 1, 1, o, s, nag)
    [] OTHER -> <<p, a, b>>

Normalize(p, a, b, o, s, nag) ==
  CASE p = "delUsers" ->
         IF a <= Len(o.delU) THEN <<p, a, 1>> ELSE Normalize("updUsers", 1, 1, o, s, nag)
    [] p = "updUsers" ->
         IF a <= Len(o.updU) THEN <<p, a, 1>> ELSE Normalize("addUsers", 1, 1, o, s, nag)
    [] p = "addUsers" ->
         IF a <= Len(o.addU) THEN <<p, a, 1>> ELSE Normalize("addGroups", 1, 1, o, s, nag)
    [] p = "addGroups" ->
         IF a <= Len(o.addG) THEN <<p, a, 1>> ELSE Normalize("populate", 1, 1, o, s, nag)
    [] p = "populate" ->
         IF a > Len(allAwsGroups(s, nag)) THEN Normalize("equalAdd", 1, 1, o, s, nag)
         ELSE LET k == awsGroupKey(allAwsGroups(s, nag)[a])
              IN IF k \in DOMAIN s.googleGroupsUsers /\ b <= Len(s.googleGroupsUsers[k])
                 THEN <<p, a, b>>
                 ELSE Normalize("populate", a + 1, 1, o, s, nag)
    [] p = "equalAdd" ->
         IF a > Len(o.eqG) THEN Normalize("delGroups", 1, 1, o, s, nag)
         ELSE IF b <= Len(Lookup(s.googleGroupsUsers, awsGroupKey(o.eqG[a])))
              THEN <<p, a, b>>
              ELSE Normalize("equalRemove", a, 1, o, s, nag)
    [] p = "equalRemove" ->
         IF b <= Len(Lookup(deleteUsersFromGroup(s), awsGroupKey(o.eqG[a])))
         THEN <<p, a, b>>
         ELSE Normalize("equalAdd", a + 1, 1, o, s, nag)
    [] p = "delGroups" ->
         IF a <= Len(o.delG) THEN <<p, a, 1>> ELSE <<"done", 1, 1>>
    [] OTHER -> <<p, a, b>>

\* the step of the ordered apply a position belongs to
StepOf(p) ==
  CASE p = "delUsers" -> 1
    [] p = "updUsers" -> 2
    [] p = "addUsers" -> 3
    [] p = "addGroups" -> 4
    [] p = "populate" -> 5
    [] p = "equalAdd" -> 6
    [] p = "equalRemove" -> 6
    [] p = "delGroups" -> 7
    [] OTHER -> 0

Stamp(c, step) ==
  [step |-> step, op |-> c.op, store |-> c.store, user |-> c.user, group |-> c.group]

FaultIdx == 0..5

\* the call numbered f of an operation, when the first n calls are made before it
Shift(f, n) == IF f > n THEN f - n ELSE 0

\* mutant: a lookup that returned an error is passed over
LookupSkipped(f) == Result(scim, ddb, FALSE, <<>>, NoError, f <= 1)

\* a lookup in the SCIM store that returned an error: nothing was issued
LookupFailed(f) == Result(scim, ddb, TRUE, <<>>, 0, f <= 1)

\* the run goes on from position (p, a, b) with the outcome out of the calls of
\* one loop body; nag is the list of created groups afterwards
\* the pair of an AddUserToGroup or RemoveUserFromGroup whose second write failed
\* after its first write was done
StoppedBetweenWrites(out) ==
  IF /\ out.err
     /\ Len(out.log) = 2
     /\ out.errIdx = 2
     /\ out.log[1].op \in {"AddUserToGroup", "RemoveUserFromGroup"}
     /\ out.log[2].op = out.log[1].op
  THEN {<<out.log[1].user, out.log[1].group>>}
  ELSE {}

Continue(out, f, nag, p, a, b) ==
  /\ f = 0 \/ faults < MaxFaults
  /\ out.fired
  /\ faults' = IF f = 0 THEN faults ELSE faults + 1
  /\ scim' = out.scim
  /\ ddb' = out.ddb
  /\ calls' = calls \o [n \in DOMAIN out.log |-> Stamp(out.log[n], StepOf(pc))]
  /\ errAt' = IF errAt = NoError /\ out.errIdx # NoError THEN Len(calls) + out.errIdx ELSE errAt
  /\ newAwsGroups' = nag
  /\ LET pos == IF out.err THEN <<"failed", 1, 1>> ELSE Normalize(p, a, b, ops, snap, nag)
     IN /\ pc' = pos[1]
        /\ i' = pos[2]
        /\ j' = pos[3]
  /\ torn' = torn \cup StoppedBetweenWrites(out)
  /\ UNCHANGED <<google, cfg, snap, ops, changes, prevOk, aborted>>

(***************************************************************************)
(* SyncGroupsUsers                                                         *)
(***************************************************************************)
\* the reads and the two diffs; f = 1: a read fails for an external reason
ReadPhase ==
  /\ pc = "idle"
  /\ \E f \in {0, 1} :
     \E names \in Perms(DdbGroupNames(ddb)) :
     \E order \in Perms(uniqueGoogleUsers(filteredGoogleGroups(google, cfg), google, cfg)) :
       LET googleGroups == filteredGoogleGroups(google, cfg)
           gg == getGoogleGroupsAndUsers(googleGroups, google, cfg, order)
           ag == awsGetGroups(scim, names)
           au == awsGetUsers(scim, ddb)
           s == [googleGroups |-> googleGroups,
                 googleUsers |-> gg.users,
                 googleGroupsUsers |-> gg.groupsUsers,
                 awsGroups |-> ag.groups,
                 awsUsers |-> au.users,
                 awsGroupsUsers |-> getAWSGroupsAndUsers(ag.groups, au.users, ddb)]
           o == ComputeOps(s)
           failing == f = 1 \/ ag.err \/ au.err
           pos == IF failing THEN <<"failed", 1, 1>> ELSE Normalize("delUsers", 1, 1, o, s, <<>>)
       IN /\ f = 0 \/ faults < MaxFaults
          /\ faults' = IF f = 0 THEN faults ELSE faults + 1
          /\ snap' = IF failing THEN EmptySnap ELSE s
          /\ ops' = IF failing THEN EmptyOps ELSE o
          /\ errAt' = IF failing THEN 0 ELSE NoError
          /\ pc' = pos[1]
          /\ i' = pos[2]
          /\ j' = pos[3]
  /\ calls' = <<>>
  /\ newAwsGroups' = <<>>
  /\ UNCHANGED <<google, cfg, scim, ddb, changes, prevOk, torn, aborted>>

\* delete aws users (deleted in google)
DeleteUsers ==
  /\ pc = "delUsers"
  /\ \E f \in FaultIdx :
       LET awsUser == ops.delU[i]
           out == IF f = 1 \/ ~ScimHasUser(scim, awsUser.Username)
                  THEN LookupFailed(f)
                  ELSE awsDeleteUser(scim, ddb, scim.users[awsUser.Username], Shift(f, 1))
       IN Continue(out, f, newAwsGroups, pc, i + 1, 1)

\* the user UpdateUser is called with: the user FindUserByEmail returned
updateArgument(awsUser, awsUserFull) == awsUserFull

\* update aws users (updated in google)
UpdateUsers ==
  /\ pc = "updUsers"
  /\ \E f \in FaultIdx :
       LET awsUser == ops.updU[i]
           out == IF f = 1 \/ ~ScimHasUser(scim, awsUser.Username)
                  THEN LookupFailed(f)
                  ELSE awsUpdateUser(scim, ddb,
                                     updateArgument(awsUser, scim.users[awsUser.Username]),
                                     Shift(f, 1))
       IN Continue(out, f, newAwsGroups, pc, i + 1, 1)

\* add aws users (added in google)
CreateUsers ==
  /\ pc = "addUsers"
  /\ \E f \in FaultIdx :
       Continue(awsCreateUser(scim, ddb, ops.addU[i], f), f, newAwsGroups, pc, i + 1, 1)

\* add aws groups (added in google)
CreateGroups ==
  /\ pc = "addGroups"
  /\ \E f \in FaultIdx :
       LET out == awsCreateGroup(scim, ddb, ops.addG[i], f)
       IN Continue(out, f, IF out.err THEN newAwsGroups ELSE Append(newAwsGroups, ops.addG[i]),
                   pc, i + 1, 1)

\* add the members of every group of allAwsGroups that is in googleGroupsUsers
Populate ==
  /\ pc = "populate"
  /\ \E f \in FaultIdx :
       LET awsGroup == allAwsGroups(snap, newAwsGroups)[i]
           googleUser == snap.googleGroupsUsers[awsGroupKey(awsGroup)][j]
           out == IF f = 1 \/ ~ScimHasUser(scim, googleUser.PrimaryEmail)
                  THEN LookupFailed(f)
                  ELSE awsAddUserToGroup(scim, ddb, scim.users[googleUser.PrimaryEmail],
                                         awsGroup, Shift(f, 1))
       IN Continue(out, f, newAwsGroups, pc, i, j + 1)

\* equal groups: add the members of the Google group that are not in the group
EqualGroupsAdd ==
  /\ pc = "equalAdd"
  /\ \E f \in FaultIdx :
       LET awsGroup == ops.eqG[i]
           googleUser == snap.googleGroupsUsers[awsGroupKey(awsGroup)][j]
           out == IF f = 1 \/ ~ScimHasUser(scim, googleUser.PrimaryEmail)
                  THEN LookupFailed(f)
                  ELSE LET awsUserFull == scim.users[googleUser.PrimaryEmail]
                       IN IF f = 2
                          THEN Result(scim, ddb, TRUE, <<>>, 0, TRUE)
                          ELSE IF DdbIsUserInGroup(ddb, awsUserFull, awsGroup)
                               THEN Result(scim, ddb, FALSE, <<>>, NoError, f = 0)
                               ELSE awsAddUserToGroup(scim, ddb, awsUserFull, awsGroup,
                                                      Shift(f, 2))
       IN Continue(out, f, newAwsGroups, pc, i, j + 1)

\* equal groups: remove the users of deleteUsersFromGroup
EqualGroupsRemove ==
  /\ pc = "equalRemove"
  /\ \E f \in FaultIdx :
       LET awsGroup == ops.eqG[i]
           awsUser == deleteUsersFromGroup(snap)[awsGroupKey(awsGroup)][j]
       IN Continue(awsRemoveUserFromGroup(scim, ddb, awsUser, awsGroup, f), f, newAwsGroups,
                   pc, i, j + 1)

\* delete aws groups (deleted in google)
DeleteGroups ==
  /\ pc = "delGroups"
  /\ \E f \in FaultIdx :
       LET groupKey == awsGroupKey(ops.delG[i])
           out == IF f = 1 \/ ~ScimHasGroup(scim, groupKey)
                  THEN LookupFailed(f)
                  ELSE awsDeleteGroup(scim, ddb, NewGroup(groupKey), Shift(f, 1))
       IN Continue(out, f, newAwsGroups, pc, i + 1, 1)

\* SyncGroupsUsers has returned (nil from "done", an error from "failed"): the
\* run's own data is gone
Return ==
  /\ pc \in Returned
  /\ pc' = "idle"
  /\ i' = 1
  /\ j' = 1
  /\ snap' = EmptySnap
  /\ ops' = EmptyOps
  /\ newAwsGroups' = <<>>
  /\ calls' = <<>>
  /\ errAt' = NoError
  /\ prevOk' = (pc = "done")
  /\ torn' = IF pc = "done" THEN {} ELSE torn
  /\ aborted' = (pc = "failed")
  /\ UNCHANGED <<google, cfg, scim, ddb, faults, changes>>

(***************************************************************************)
(* The upstream directory is edited between runs                           *)
(***************************************************************************)
OtherName(n) == IF n = "A" THEN "B" ELSE "A"

ChangeUpstream ==
  /\ pc = "idle"
  /\ changes < MaxChanges
  /\ changes' = changes + 1
  /\ prevOk' = FALSE
  /\ torn' = {}
  /\ \/ \E g \in GroupEmails :
          google' = [google EXCEPT !.groups =
                       IF g \in @ THEN @ \ {g} ELSE @ \cup {g}]
     \/ \E g \in GroupEmails, u \in UserEmails :
          google' = [google EXCEPT !.members[g] =
                       IF u \in @ THEN @ \ {u} ELSE @ \cup {u}]
     \/ \E u \in UserEmails :
          \/ google' = [google EXCEPT !.users[u].Suspended = ~@]
          \/ google' = [google EXCEPT !.users[u].GivenName = OtherName(@)]
          \/ google' = [google EXCEPT !.users[u].FamilyName = OtherName(@)]
  /\ UNCHANGED <<cfg, scim, ddb, pc, i, j, snap, ops, newAwsGroups, calls, errAt, faults,
                 aborted>>

\* the first run finds any upstream directory, an empty SCIM store and empty tables
InitWith(c) ==
  /\ \E gs \in SUBSET GroupEmails, ms \in [GroupEmails -> SUBSET UserEmails] :
       /\ \A g \in GroupEmails \ gs : ms[g] = {}
       /\ google = [EmptyGoogle EXCEPT !.groups = gs, !.members = ms]
  /\ cfg = c
  /\ scim = EmptyScim
  /\ ddb = EmptyDdb
  /\ pc = "idle"
  /\ i = 1
  /\ j = 1
  /\ snap = EmptySnap
  /\ ops = EmptyOps
  /\ newAwsGroups = <<>>
  /\ calls = <<>>
  /\ errAt = NoError
  /\ faults = 0
  /\ changes = 0
  /\ prevOk = FALSE
  /\ torn = {}
  /\ aborted = FALSE

Init == InitWith(DefaultCfg)

\* the same, with the dry-run flag of the configuration set
InitDry == InitWith([DefaultCfg EXCEPT !.DryRun = TRUE])

Next ==
  \/ ReadPhase
  \/ DeleteUsers
  \/ UpdateUsers
  \/ CreateUsers
  \/ CreateGroups
  \/ Populate
  \/ EqualGroupsAdd
  \/ EqualGroupsRemove
  \/ DeleteGroups
  \/ Return
  \/ ChangeUpstream

Spec == Init /\ [][Next]_vars

SpecDry == InitDry /\ [][Next]_vars

(***************************************************************************)
(* Claims about the diff functions (checked under SpecDiff)                *)
(***************************************************************************)
UserKeys(list) == {list[n].Username : n \in DOMAIN list}

GoogleUserKeys(list) == {list[n].PrimaryEmail : n \in DOMAIN list}

GroupKeys(list) == {list[n].DisplayName : n \in DOMAIN list}

\* C6: the keys of toAdd, toDelete, toUpdate and unchanged returned by
\* getUserOperations are pairwise disjoint, and together they are exactly the
\* keys of the upstream and the downstream list.
C6_UserDiffPartition ==
  pc = "diffed" =>
    LET A == UserKeys(ops.addU)
        D == UserKeys(ops.delU)
        U == UserKeys(ops.updU)
        E == UserKeys(ops.eqU)
    IN /\ A \cap D = {} /\ A \cap U = {} /\ A \cap E = {}
       /\ D \cap U = {} /\ D \cap E = {} /\ U \cap E = {}
       /\ A \cup D \cup U \cup E = UserKeys(snap.awsUsers) \cup GoogleUserKeys(snap.googleUsers)

\* a diff with a user to add and a user to delete
C6_Witness ==
  /\ pc = "diffed"
  /\ ops.addU # <<>>
  /\ ops.delU # <<>>

\* C7: an upstream user is in toAdd iff no downstream user has its key, in
\* toUpdate iff a downstream user with its key differs in given name, family
\* name or has active different from NOT suspended, in unchanged iff a
\* counterpart exists and none of these differ; a downstream user is in
\* toDelete iff its key is absent upstream.
C7_UserClassification ==
  pc = "diffed" =>
    /\ \A g \in Range(snap.googleUsers) :
         LET k == g.PrimaryEmail
             counterparts == {a \in Range(snap.awsUsers) : a.Username = k}
             differs(a) == \/ a.GivenName # g.GivenName
                           \/ a.FamilyName # g.FamilyName
                           \/ a.Active # (~g.Suspended)
         IN /\ k \in UserKeys(ops.addU) <=> counterparts = {}
            /\ k \in UserKeys(ops.updU) <=> \E a \in counterparts : differs(a)
            /\ k \in UserKeys(ops.eqU) <=> \E a \in counterparts : ~differs(a)
    /\ \A a \in Range(snap.awsUsers) :
         a.Username \in UserKeys(ops.delU)
           <=> a.Username \notin GoogleUserKeys(snap.googleUsers)

\* a diff with a user to update, whose only difference is the flag, and an unchanged user
C7_Witness ==
  /\ pc = "diffed"
  /\ ops.eqU # <<>>
  /\ \E a \in Range(snap.awsUsers), g \in Range(snap.googleUsers) :
       /\ a.Username = g.PrimaryEmail
       /\ a.GivenName = g.GivenName
       /\ a.FamilyName = g.FamilyName
       /\ a.Active = g.Suspended
       /\ a.Username \in UserKeys(ops.updU)

\* C8: every record of toAdd and toUpdate carries the upstream given name,
\* family name and email and active = NOT suspended; a downstream active user
\* suspended upstream yields a toUpdate record with active = FALSE, a
\* downstream inactive user not suspended upstream one with active = TRUE.
C8_Polarity ==
  pc = "diffed" =>
    /\ \A r \in Range(ops.addU) \cup Range(ops.updU) :
         \E g \in Range(snap.googleUsers) :
           /\ r.Username = g.PrimaryEmail
           /\ r.GivenName = g.GivenName
           /\ r.FamilyName = g.FamilyName
           /\ r.Active = (~g.Suspended)
    /\ \A a \in Range(snap.awsUsers), g \in Range(snap.googleUsers) :
         (a.Username = g.PrimaryEmail /\ a.Active = g.Suspended) =>
           \E r \in Range(ops.updU) : r.Username = a.Username /\ r.Active = (~a.Active)

\* downstream active, upstream suspended, and the update record is inactive
C8_Witness ==
  /\ pc = "diffed"
  /\ \E a \in Range(snap.awsUsers), g \in Range(snap.googleUsers), r \in Range(ops.updU) :
       /\ a.Username = g.PrimaryEmail
       /\ r.Username = a.Username
       /\ a.Active
       /\ g.Suspended
       /\ ~r.Active

\* C10: getGroupOperations returns toAdd = the upstream addresses with no
\* downstream group of that display name, toDelete = the downstream display
\* names absent upstream, equal = the downstream groups whose display name is
\* an upstream address, whatever their members; the three key sets are
\* pairwise disjoint and cover all keys.
C10_GroupDiff ==
  pc = "diffed" =>
    LET up == {g.Email : g \in Range(snap.googleGroups)}
        down == {a.DisplayName : a \in Range(snap.awsGroups)}
        A == GroupKeys(ops.addG)
        D == GroupKeys(ops.delG)
        E == GroupKeys(ops.eqG)
    IN /\ A = up \ down
       /\ D = down \ up
       /\ Range(ops.eqG) = {a \in Range(snap.awsGroups) : a.DisplayName \in up}
       /\ A \cap D = {} /\ A \cap E = {} /\ D \cap E = {}
       /\ A \cup D \cup E = up \cup down

\* a group to add, a group to delete, and an equal group that has members downstream
C10_Witness ==
  /\ pc = "diffed"
  /\ ops.addG # <<>>
  /\ ops.delG # <<>>
  /\ \E a \in Range(ops.eqG) : a.Members # <<>>

(***************************************************************************)
(* Claims about a run (checked under Spec, C5 under SpecDry)               *)
(***************************************************************************)
\* the upstream directory as a run reads it
UpstreamGroups == {googleGroupKey(g) : g \in Range(filteredGoogleGroups(google, cfg))}

UpstreamMembers ==
  {<<u, googleGroupKey(g)>> : u \in UserEmails, g \in Range(filteredGoogleGroups(google, cfg))}
    \cap {m \in UserEmails \X GroupEmails : m[1] \in Range(keptMembers(google, cfg, GoogleGroup(m[2])))}

UpstreamUsers == uniqueGoogleUsers(filteredGoogleGroups(google, cfg), google, cfg)

ApplyPositions ==
  {"delUsers", "updUsers", "addUsers", "addGroups", "populate", "equalAdd", "equalRemove",
   "delGroups"}

\* C1: a run that completes without error leaves the SCIM store with the users,
\* the groups and the memberships of the upstream directory, and the tables
\* with the same users and the same memberships.
C1_Convergence ==
  pc = "done" =>
    /\ DOMAIN scim.users = UpstreamUsers
    /\ scim.groups = UpstreamGroups
    /\ scim.members = UpstreamMembers
    /\ ddb.users = UpstreamUsers
    /\ {<<r[2], r[1]>> : r \in ddb.groups} = UpstreamMembers

\* C2: when the last run completed without error and the upstream directory
\* has not changed since, the diff of the next run has no user to add, delete
\* or update and no group to add or delete.
C2_Idempotence ==
  (prevOk /\ pc \in ApplyPositions \cup {"done"}) =>
    /\ ops.addU = <<>>
    /\ ops.delU = <<>>
    /\ ops.updU = <<>>
    /\ ops.addG = <<>>
    /\ ops.delG = <<>>

\* the steps in which the ordered apply issues an operation
StepsOfOp(op) ==
  CASE op = "DeleteUser" -> {1}
    [] op = "UpdateUser" -> {2}
    [] op = "CreateUser" -> {3}
    [] op = "CreateGroup" -> {4}
    [] op = "AddUserToGroup" -> {5, 6}
    [] op = "RemoveUserFromGroup" -> {6, 7}
    [] op = "DeleteGroup" -> {7}
    [] OTHER -> {}

\* C3: the mutating calls of a run occur in the order of the steps: delete
\* users, update users, create users, create groups, populate, reconcile the
\* equal groups, delete groups; no call of an earlier step follows a call of a
\* later step, and every call is one its step issues.
C3_OrderedApply ==
  /\ \A n \in DOMAIN calls : calls[n].step \in StepsOfOp(calls[n].op)
  /\ \A m, n \in DOMAIN calls : m < n => calls[m].step <= calls[n].step

\* a completed run that deleted a user (step 1), added a member (step 5) and
\* deleted a group (step 7)
C3_Witness ==
  /\ pc = "done"
  /\ \E l, m, n \in DOMAIN calls :
       /\ l < m /\ m < n
       /\ calls[l].op = "DeleteUser"
       /\ calls[m].op = "AddUserToGroup"
       /\ calls[n].op = "DeleteGroup"

\* C4: once a collaborator call of a run has returned an error, the run
\* returns an error and issues no further mutating call.
C4_AbortOnFirstFailure ==
  errAt # NoError => (pc = "failed" /\ Len(calls) = errAt)

\* C5: with the dry-run flag set a run issues no mutating call.
C5_DryRun ==
  cfg.DryRun => calls = <<>>

\* C9: once the update step of a run is over without error, every user of
\* toUpdate has in the SCIM store the given name, the family name and the
\* active flag of its toUpdate record.
C9_UpdateApplied ==
  pc \in {"addUsers", "addGroups", "populate", "equalAdd", "equalRemove", "delGroups", "done"} =>
    \A n \in DOMAIN ops.updU :
      /\ ScimHasUser(scim, ops.updU[n].Username)
      /\ scim.users[ops.updU[n].Username].GivenName = ops.updU[n].GivenName
      /\ scim.users[ops.updU[n].Username].FamilyName = ops.updU[n].FamilyName
      /\ scim.users[ops.updU[n].Username].Active = ops.updU[n].Active

(***************************************************************************)
(* SpecMembers: getGroupUsersOperations applied to every pair of maps from *)
(* group keys to member lists over three users                             *)
(***************************************************************************)
MemberOrder == <<"a@x.com", "b@x.com", "c@x.com">>

MemberEmails == {MemberOrder[n] : n \in DOMAIN MemberOrder}

GoogleMember(e) == GoogleUser(e, "A", "A", FALSE)

AwsMember(e) == NewUser("A", "A", e, TRUE)

\* the member lists: the users of a set, in table order
MemberLists == {SeqOfSet(S, MemberOrder) : S \in SUBSET MemberEmails}

\* the maps from some group keys to lists of upstream users
GoogleMemberMaps ==
  UNION {[ks -> {[n \in DOMAIN l |-> GoogleMember(l[n])] : l \in MemberLists}] :
           ks \in SUBSET GroupEmails}

\* the maps from some group keys to lists of downstream users
AwsMemberMaps ==
  UNION {[ks -> {[n \in DOMAIN l |-> AwsMember(l[n])] : l \in MemberLists}] :
           ks \in SUBSET GroupEmails}

InitMembers ==
  /\ google = EmptyGoogle
  /\ cfg = DefaultCfg
  /\ scim = EmptyScim
  /\ ddb = EmptyDdb
  /\ pc = "diffMembers"
  /\ i = 1
  /\ j = 1
  /\ \E g \in GoogleMemberMaps, a \in AwsMemberMaps :
       snap = [EmptySnap EXCEPT !.googleGroupsUsers = g, !.awsGroupsUsers = a]
  /\ ops = EmptyOps
  /\ newAwsGroups = <<>>
  /\ calls = <<>>
  /\ errAt = NoError
  /\ faults = 0
  /\ changes = 0
  /\ prevOk = FALSE
  /\ torn = {}
  /\ aborted = FALSE

\* deleteUsersFromGroup, equals := getGroupUsersOperations(googleGroupsUsers, awsGroupsUsers)
DiffMembers ==
  /\ pc = "diffMembers"
  /\ pc' = "diffedMembers"
  /\ ops' = getGroupUsersOperations(snap.googleGroupsUsers, snap.awsGroupsUsers)
  /\ UNCHANGED <<google, cfg, scim, ddb, i, j, snap, newAwsGroups, calls, errAt,
                 faults, changes, prevOk, torn, aborted>>

NextMembers == DiffMembers

SpecMembers == InitMembers /\ [][NextMembers]_vars

\* C11: for every downstream group and every member of it,
\* getGroupUsersOperations puts the member in equals[group] iff the upstream
\* members of the group with the same key contain the member's key, and
\* otherwise in delete[group]; the two lists hold nothing else.
C11_MembershipDiff ==
  pc = "diffedMembers" =>
    \A k \in DOMAIN snap.awsGroupsUsers :
      LET upstream == {g.PrimaryEmail : g \in Range(Lookup(snap.googleGroupsUsers, k))}
          members == Range(snap.awsGroupsUsers[k])
          eq == Range(Lookup(ops.equals, k))
          del == Range(Lookup(ops.delete, k))
      IN /\ eq = {u \in members : u.Username \in upstream}
         /\ del = {u \in members : u.Username \notin upstream}

\* downstream {a, b, c} and upstream {a, c} of one group give delete = {b} and
\* equals = {a, c}
C11_Witness ==
  /\ pc = "diffedMembers"
  /\ \E k \in DOMAIN snap.awsGroupsUsers :
       /\ UserKeys(snap.awsGroupsUsers[k]) = {"a@x.com", "b@x.com", "c@x.com"}
       /\ GoogleUserKeys(Lookup(snap.googleGroupsUsers, k)) = {"a@x.com", "c@x.com"}
       /\ UserKeys(ops.delete[k]) = {"b@x.com"}
       /\ UserKeys(ops.equals[k]) = {"a@x.com", "c@x.com"}

(***************************************************************************)
(* Claims about the membership steps (checked under Spec)                  *)
(***************************************************************************)
\* the positions in calls of the calls of an operation on a store
CallsOf(op, store) == {n \in DOMAIN calls : calls[n].op = op /\ calls[n].store = store}

\* the equal group step 6 is working on
CurrentEqualGroup == awsGroupKey(ops.eqG[i])

\* C12: for every group of toAdd, CreateGroup (of a group without members)
\* comes before every membership call for the group; the members are added by
\* the populate loop, which adds every upstream member without testing the
\* membership first; and the loop over the equal groups never works on it.
C12_NewGroup ==
  \A g \in GroupKeys(ops.addG) :
    /\ \A n \in DOMAIN calls :
         (calls[n].group = g /\ calls[n].op # "CreateGroup") =>
           /\ calls[n].op = "AddUserToGroup"
           /\ calls[n].step = 5
           /\ \E c \in CallsOf("CreateGroup", "scim") : c < n /\ calls[c].group = g
    /\ \A n \in DOMAIN ops.addG : ops.addG[n].Members = <<>>
    /\ pc \in {"equalAdd", "equalRemove"} => CurrentEqualGroup # g
    /\ pc = "done" =>
         \A u \in GoogleUserKeys(Lookup(snap.googleGroupsUsers, g)) :
           \E n \in CallsOf("AddUserToGroup", "scim") :
             calls[n].group = g /\ calls[n].user = u /\ calls[n].step = 5

\* a completed run that created a group with two upstream members and added both
C12_Witness ==
  /\ pc = "done"
  /\ \E g \in GroupKeys(ops.addG) :
       /\ Len(snap.googleGroupsUsers[g]) = 2
       /\ \E c \in CallsOf("CreateGroup", "scim"), m, n \in CallsOf("AddUserToGroup", "scim") :
            /\ calls[c].group = g /\ calls[m].group = g /\ calls[n].group = g
            /\ c < m /\ m < n
            /\ calls[m].user # calls[n].user

\* the users of the calls of an operation that step 6 issued to the SCIM store for a group
Step6Users(op, g) ==
  {calls[n].user : n \in {m \in CallsOf(op, "scim") : calls[m].step = 6 /\ calls[m].group = g}}

\* the members of a downstream group that are not upstream members of it
ExpectedRemovals(g) ==
  UserKeys(Lookup(snap.awsGroupsUsers, g)) \ GoogleUserKeys(Lookup(snap.googleGroupsUsers, g))

\* C13: for each equal group, step 6 adds a member only when the membership
\* check has just returned false, removes only members of the group's delete
\* list and, when it completes, all of them; and it adds nothing when the
\* downstream members include all upstream members.
C13_EqualGroupStep ==
  /\ [](\A g \in GroupKeys(ops.eqG) :
          /\ Step6Users("RemoveUserFromGroup", g) \subseteq ExpectedRemovals(g)
          /\ pc = "done" => Step6Users("RemoveUserFromGroup", g) = ExpectedRemovals(g)
          /\ GoogleUserKeys(Lookup(snap.googleGroupsUsers, g))
               \subseteq UserKeys(Lookup(snap.awsGroupsUsers, g))
             => Step6Users("AddUserToGroup", g) = {})
  /\ [][(pc = "equalAdd" /\ Len(calls') > Len(calls)) =>
          /\ <<CurrentEqualGroup, snap.googleGroupsUsers[CurrentEqualGroup][j].PrimaryEmail>>
               \notin ddb.groups
          /\ \A n \in (DOMAIN calls') \ (DOMAIN calls) :
               /\ calls'[n].op = "AddUserToGroup"
               /\ calls'[n].group = CurrentEqualGroup
               /\ calls'[n].user = snap.googleGroupsUsers[CurrentEqualGroup][j].PrimaryEmail]_vars

\* a completed run on an equal group with members {a, b} downstream and {a}
\* upstream: step 6 removed b and added nothing
C13_Witness ==
  /\ pc = "done"
  /\ \E g \in GroupKeys(ops.eqG) :
       /\ UserKeys(snap.awsGroupsUsers[g]) = {"a@x.com", "b@x.com"}
       /\ GoogleUserKeys(snap.googleGroupsUsers[g]) = {"a@x.com"}
       /\ Step6Users("RemoveUserFromGroup", g) = {"b@x.com"}
       /\ Step6Users("AddUserToGroup", g) = {}

\* the pairs (user, group) of an equal group whose user is a member of the
\* group upstream and, by the tables read at the start of the run, downstream
StillValid ==
  {m \in UserEmails \X GroupKeys(ops.eqG) :
     /\ m[1] \in GoogleUserKeys(Lookup(snap.googleGroupsUsers, m[2]))
     /\ m[1] \in UserKeys(Lookup(snap.awsGroupsUsers, m[2]))}

\* C14: within step 6 the add loop of an equal group is over before its remove
\* loop starts, so every AddUserToGroup of step 6 for a group precedes every
\* RemoveUserFromGroup of step 6 for it; and a user who is a member of the
\* group upstream and downstream when the run starts stays in the Groups
\* table, and stays in the SCIM group once there, in every state of the run.
C14_AddBeforeRemove ==
  /\ [](\A m, n \in DOMAIN calls :
          (/\ calls[m].step = 6 /\ calls[n].step = 6
           /\ calls[m].group = calls[n].group
           /\ calls[m].op = "AddUserToGroup"
           /\ calls[n].op = "RemoveUserFromGroup") => m < n)
  /\ [](pc \in ApplyPositions =>
          \A m \in StillValid : <<m[2], m[1]>> \in ddb.groups)
  /\ [][/\ (pc = "equalRemove" /\ pc' = "equalAdd") => i' > i
        /\ (pc = "equalAdd" /\ pc' = "equalRemove") => i' >= i
        /\ pc \in ApplyPositions =>
             \A m \in StillValid : m \in scim.members => m \in scim.members']_vars

\* step 6 has gone through the add loop of an equal group and is removing a
\* member of it, while another member of the group is still valid
C14_Witness ==
  /\ pc = "equalRemove"
  /\ \E m \in StillValid :
       /\ m[2] = CurrentEqualGroup
       /\ m \in scim.members
       /\ <<m[2], m[1]>> \in ddb.groups

(***************************************************************************)
(* Claims about the writes to the two stores (checked under Spec)          *)
(***************************************************************************)
\* the positions in calls' of the calls the step issued
NewCalls == (DOMAIN calls') \ (DOMAIN calls)

\* the call at position n of calls' is this operation on this store for the pair of call c
SamePairCall(n, op, store, c) ==
  /\ n \in NewCalls
  /\ calls'[n].op = op
  /\ calls'[n].store = store
  /\ calls'[n].user = c.user
  /\ calls'[n].group = c.group

\* C15: AddUserToGroup writes the row of the Groups table only when the
\* table does not hold the pair, and writes the SCIM store after that;
\* RemoveUserFromGroup writes the SCIM store first and deletes the row after
\* that.
C15_DualStoreOrder ==
  [][\A n \in NewCalls :
       LET c == calls'[n]
       IN /\ (c.op = "AddUserToGroup" /\ c.store = "ddb") =>
               <<c.group, c.user>> \notin ddb.groups
          /\ (c.op = "AddUserToGroup" /\ c.store = "scim") =>
               \/ <<c.group, c.user>> \in ddb.groups
               \/ SamePairCall(n - 1, "AddUserToGroup", "ddb", c)
          /\ (c.op = "RemoveUserFromGroup" /\ c.store = "scim") =>
               /\ n - 1 \notin NewCalls
               /\ <<c.group, c.user>> \in ddb.groups
          /\ (c.op = "RemoveUserFromGroup" /\ c.store = "ddb" /\ c.step = 6) =>
               SamePairCall(n - 1, "RemoveUserFromGroup", "scim", c)]_vars

\* the step is one AddUserToGroup or RemoveUserFromGroup of awsClient, complete
\* or stopped by a failure, for a pair on which the two stores agreed
MembershipStepOn(u, g) ==
  /\ pc \in {"populate", "equalAdd", "equalRemove"}
  /\ NewCalls # {}
  /\ \A n \in NewCalls : calls'[n].user = u /\ calls'[n].group = g
  /\ <<u, g>> \in scim.members <=> <<g, u>> \in ddb.groups

\* C16 (as stated): from stores that agree on a pair, wherever AddUserToGroup
\* or RemoveUserFromGroup stops, the Groups table does not hold the pair while
\* the SCIM store lacks it.
C16_CrashAsymmetry ==
  [][\A u \in UserEmails, g \in GroupEmails :
       MembershipStepOn(u, g) =>
         ~(<<g, u>> \in ddb'.groups /\ <<u, g>> \notin scim'.members)]_vars

\* C16 (amended): from stores that agree on a pair, wherever AddUserToGroup or
\* RemoveUserFromGroup stops, the SCIM store does not hold the pair while the
\* Groups table lacks it: the table gets an addition first and a removal last.
C16_CacheLeadsAddsLagsRemoves ==
  [][\A u \in UserEmails, g \in GroupEmails :
       MembershipStepOn(u, g) =>
         ~(<<u, g>> \in scim'.members /\ <<g, u>> \notin ddb'.groups)]_vars

\* a run stopped inside AddUserToGroup, after the row was written and before
\* the SCIM store was
C16_Witness ==
  /\ pc = "failed"
  /\ calls # <<>>
  /\ LET c == calls[Len(calls)]
     IN /\ c.op = "AddUserToGroup"
        /\ c.store = "scim"
        /\ <<c.group, c.user>> \in ddb.groups
        /\ <<c.user, c.group>> \notin scim.members
        /\ Len(calls) > 1
        /\ calls[Len(calls) - 1] = [c EXCEPT !.store = "ddb"]

\* the step is one call of awsClient.AddUserToGroup or RemoveUserFromGroup
\* that returned nil
MembershipStepSucceeded ==
  /\ pc \in {"populate", "equalAdd", "equalRemove"}
  /\ pc' # "failed"

\* C17: after every AddUserToGroup that returns nil the SCIM group and the
\* Groups table both hold the pair, and after every RemoveUserFromGroup that
\* returns nil neither holds it.
C17_BothStoresUpdated ==
  [][MembershipStepSucceeded =>
       /\ pc \in {"populate", "equalRemove"} => NewCalls # {}
       /\ \A n \in NewCalls :
            LET c == calls'[n]
            IN /\ c.op \in {"AddUserToGroup", "RemoveUserFromGroup"}
               /\ c.op = "AddUserToGroup" =>
                    /\ <<c.user, c.group>> \in scim'.members
                    /\ <<c.group, c.user>> \in ddb'.groups
               /\ c.op = "RemoveUserFromGroup" =>
                    /\ <<c.user, c.group>> \notin scim'.members
                    /\ <<c.group, c.user>> \notin ddb'.groups]_vars

\* a completed run that added a pair to both stores and removed another from
\* both
C17_Witness ==
  /\ pc = "done"
  /\ \E m, n \in DOMAIN calls :
       /\ calls[m].op = "AddUserToGroup" /\ calls[m].store = "ddb"
       /\ calls[n].op = "RemoveUserFromGroup" /\ calls[n].store = "ddb"
       /\ calls[n].step = 6
       /\ <<calls[m].user, calls[m].group>> \in scim.members
       /\ <<calls[m].group, calls[m].user>> \in ddb.groups
       /\ <<calls[n].user, calls[n].group>> \notin scim.members
       /\ <<calls[n].group, calls[n].user>> \notin ddb.groups

(***************************************************************************)
(* Claims about the runs that follow a stopped run                         *)
(***************************************************************************)
\* both stores agree with the upstream directory on the pair p
AgreesWithUpstream(p) ==
  /\ p \in scim.members <=> p \in UpstreamMembers
  /\ <<p[2], p[1]>> \in ddb.groups <=> p \in UpstreamMembers

\* C18: when a run stopped between the two writes of an AddUserToGroup or a
\* RemoveUserFromGroup, a later run that completes without error, with the
\* upstream directory unchanged in between, leaves the SCIM store and the
\* Groups table agreeing with the upstream directory on that pair.
C18_SelfHeal == pc = "done" => \A p \in torn : AgreesWithUpstream(p)

\* the step stops the run though no collaborator call of the step failed for
\* an external reason
FailsByItself ==
  /\ pc \notin Returned
  /\ pc' = "failed"
  /\ faults' = faults

\* C19: the run that follows a run stopped by a failure, when no collaborator
\* call fails for an external reason, completes its read phase and its apply
\* sequence, and ends with the users, groups and memberships of the upstream
\* directory in the SCIM store and in the tables.
C19_RerunContinues ==
  /\ [][aborted => ~FailsByItself]_vars
  /\ [](aborted /\ pc = "done" =>
          /\ DOMAIN scim.users = UpstreamUsers
          /\ ddb.users = UpstreamUsers
          /\ scim.groups = UpstreamGroups
          /\ scim.members = UpstreamMembers
          /\ {<<r[2], r[1]>> : r \in ddb.groups} = UpstreamMembers)

(***************************************************************************)
(* The SCIM store has other writers: while the run is in the add loop of   *)
(* an equal group, the membership it is about to test is removed there     *)
(***************************************************************************)
\* the member the add loop of the equal group is about to test
CurrentMember == snap.googleGroupsUsers[CurrentEqualGroup][j].PrimaryEmail

ScimDrift ==
  /\ pc = "equalAdd"
  /\ <<CurrentMember, CurrentEqualGroup>> \in scim.members
  /\ scim' = [scim EXCEPT !.members = scim.members \ {<<CurrentMember, CurrentEqualGroup>>}]
  /\ UNCHANGED <<google, cfg, ddb, pc, i, j, snap, ops, newAwsGroups, calls, errAt,
                 faults, changes, prevOk, torn, aborted>>

NextDrift == Next \/ ScimDrift

SpecDrift == Init /\ [][NextDrift]_vars

\* C20: in the add loop of an equal group, a member of the Google group is
\* added exactly when the SCIM store does not hold the membership at the time
\* of the test.
C20_LiveMembershipCheck ==
  [][(/\ pc = "equalAdd"
      /\ pc' # "failed"
      /\ <<pc', i', j'>> # <<pc, i, j>>) =>
       (<<CurrentMember, CurrentEqualGroup>> \notin scim.members
          <=> \E n \in NewCalls :
                /\ calls'[n].op = "AddUserToGroup"
                /\ calls'[n].store = "scim"
                /\ calls'[n].user = CurrentMember
                /\ calls'[n].group = CurrentEqualGroup)]_vars

(***************************************************************************)
(* Claims about what the read phase takes from the two stores              *)
(***************************************************************************)
\* the step is a read phase that returned its snapshot
ReadPhaseSucceeded ==
  /\ pc = "idle"
  /\ pc' \in ApplyPositions \cup {"done"}

\* C21: the downstream users and groups the read phase hands to the diff are
\* the users and groups of the SCIM store, whether or not the tables have a
\* row for them.
C21_SnapshotFromScim ==
  [][ReadPhaseSucceeded =>
       /\ {snap'.awsGroups[n].DisplayName : n \in DOMAIN snap'.awsGroups} = scim.groups
       /\ {snap'.awsUsers[n].Username : n \in DOMAIN snap'.awsUsers} = DOMAIN scim.users]_vars

(***************************************************************************)
(* Claims about the deletion of groups                                     *)
(***************************************************************************)
\* the group the loop over delAWSGroups is at
CurrentDeletedGroup == awsGroupKey(ops.delG[i])

\* the rows of the Groups table for the group named g
RowsOf(db, g) == {r \in db.groups : r[1] = g}

\* C22: after every DeleteGroup that returns nil the Groups table has no row
\* for the group and the SCIM store has neither the group nor a member of it.
C22_DeleteGroupPurges ==
  [][(pc = "delGroups" /\ pc' # "failed") =>
       /\ RowsOf(ddb', CurrentDeletedGroup) = {}
       /\ CurrentDeletedGroup \notin scim'.groups
       /\ \A m \in scim'.members : m[2] # CurrentDeletedGroup
       /\ \E n \in NewCalls :
            /\ calls'[n].op = "DeleteGroup"
            /\ calls'[n].group = CurrentDeletedGroup
       /\ \A r \in RowsOf(ddb, CurrentDeletedGroup) :
            \E n \in NewCalls :
              /\ calls'[n].op = "RemoveUserFromGroup"
              /\ calls'[n].store = "ddb"
              /\ calls'[n].user = r[2]
              /\ calls'[n].group = CurrentDeletedGroup]_vars

\* a completed run that deleted a group with a row in the Groups table
C22_Witness ==
  /\ pc = "done"
  /\ \E m, n \in DOMAIN calls :
       /\ m < n
       /\ calls[m].op = "DeleteGroup" /\ calls[m].step = 7
       /\ calls[n].op = "RemoveUserFromGroup" /\ calls[n].step = 7
       /\ calls[n].group = calls[m].group
       /\ RowsOf(ddb, calls[m].group) = {}
       /\ calls[m].group \notin scim.groups

(***************************************************************************)
(* Claims about lookups that fail                                          *)
(***************************************************************************)
\* the member of the Google group the populate loop is at
PopulateMember ==
  snap.googleGroupsUsers[awsGroupKey(allAwsGroups(snap, newAwsGroups)[i])][j].PrimaryEmail

\* the step is a pass of the populate loop or of the add loop of an equal
\* group in which a call failed before any write was tried: FindUserByEmail
\* (in the add loop of an equal group also IsUserInGroup)
MemberLookupFails ==
  \/ pc = "populate" /\ ~ScimHasUser(scim, PopulateMember)
  \/ pc = "equalAdd" /\ ~ScimHasUser(scim, CurrentMember)
  \/ pc \in {"populate", "equalAdd"} /\ faults' # faults /\ NewCalls = {}

\* C23: in the populate loop and in the add loop of an equal group, a failed
\* FindUserByEmail of a member stops the run: the member is not passed over,
\* nothing is written, and a stopped run writes nothing more.
C23_UnresolvableMemberFatal ==
  /\ [][MemberLookupFails =>
          /\ pc' = "failed"
          /\ calls' = calls
          /\ scim' = scim
          /\ ddb' = ddb]_vars
  /\ [][pc = "failed" =>
          /\ pc' = "idle"
          /\ scim' = scim
          /\ ddb' = ddb]_vars

\* a run stopped in the populate loop by the lookup of a member that is not
\* the last of its group: the member before it was added, the next was not
C23_Witness ==
  /\ pc = "failed"
  /\ calls # <<>>
  /\ errAt = Len(calls)
  /\ LET c == calls[Len(calls)]
     IN /\ c.step = 5
        /\ c.op = "AddUserToGroup"
        /\ c.store = "scim"
        /\ c.group \in DOMAIN snap.googleGroupsUsers
        /\ LET members == snap.googleGroupsUsers[c.group]
           IN \E k \in 1..(Len(members) - 1) :
                /\ members[k].PrimaryEmail = c.user
                /\ <<members[k + 1].PrimaryEmail, c.group>> \notin scim.members

(***************************************************************************)
(* The SCIM store has other writers: while the run is in the loop over     *)
(* delAWSUsers, the user it is about to look up is deleted there           *)
(***************************************************************************)
\* the user the loop over delAWSUsers is at
CurrentDeletedUser == ops.delU[i].Username

ScimUserDrift ==
  /\ pc = "delUsers"
  /\ ScimHasUser(scim, CurrentDeletedUser)
  /\ scim' = ScimDeleteUser(scim, scim.users[CurrentDeletedUser])
  /\ UNCHANGED <<google, cfg, ddb, pc, i, j, snap, ops, newAwsGroups, calls, errAt,
                 faults, changes, prevOk, torn, aborted>>

NextUserDrift == Next \/ ScimUserDrift

SpecUserDrift == Init /\ [][NextUserDrift]_vars

\* C24: when FindUserByEmail reports that a user of delAWSUsers is not in the
\* SCIM store, the loop passes over the user and the run goes on: no call is
\* issued for the user and the run is not stopped.
C24_IdempotentUserDelete ==
  [][(/\ pc = "delUsers"
      /\ ~ScimHasUser(scim, CurrentDeletedUser)
      /\ faults' = faults) =>
       /\ pc' # "failed"
       /\ calls' = calls]_vars

(***************************************************************************)
(* Claims about the users a run deletes                                    *)
(***************************************************************************)
\* C25: after a DeleteUser of step 1 the run issues no CreateUser and no
\* AddUserToGroup for the same user.
C25_NoResurrection ==
  \A m, n \in DOMAIN calls :
    (/\ m < n
     /\ calls[m].op = "DeleteUser"
     /\ calls[m].step = 1
     /\ calls[n].op \in {"CreateUser", "AddUserToGroup"}) =>
      calls[n].user # calls[m].user

\* a completed run that deleted a user in step 1 and later added another user
\* to a group; the deleted user is in neither store
C25_Witness ==
  /\ pc = "done"
  /\ \E m, n \in DOMAIN calls :
       /\ m < n
       /\ calls[m].op = "DeleteUser" /\ calls[m].step = 1 /\ calls[m].store = "scim"
       /\ calls[n].op = "AddUserToGroup" /\ calls[n].store = "scim"
       /\ ~ScimHasUser(scim, calls[m].user)
       /\ calls[m].user \notin ddb.users

(***************************************************************************)
(* Runs with a user on the ignore list of the configuration                *)
(***************************************************************************)
IgnoredUsers == {"a@x.com"}

InitIgnore == InitWith([DefaultCfg EXCEPT !.IgnoreUsers = IgnoredUsers])

SpecIgnore == InitIgnore /\ [][Next]_vars

\* the emails of a list of Google users
PrimaryEmails(users) == {users[n].PrimaryEmail : n \in DOMAIN users}

\* the names of a list of AWS users
Usernames(users) == {users[n].Username : n \in DOMAIN users}

\* C26: a user on the ignore list is in no list the read phase hands to the
\* diff (googleUsers, the member lists of googleGroupsUsers), so it is not in
\* addAWSUsers or updateAWSUsers, and no AddUserToGroup is issued for it.
C26_IgnoredBeforeDiff ==
  \A u \in cfg.IgnoreUsers :
    /\ u \notin PrimaryEmails(snap.googleUsers)
    /\ \A k \in DOMAIN snap.googleGroupsUsers : u \notin PrimaryEmails(snap.googleGroupsUsers[k])
    /\ u \notin Usernames(ops.addU)
    /\ u \notin Usernames(ops.updU)
    /\ \A n \in DOMAIN calls :
         calls[n].op \in {"AddUserToGroup", "CreateUser", "UpdateUser"} => calls[n].user # u

\* a completed run over a Google group that has an ignored member and another
\* member: the other member was added to the group
C26_Witness ==
  /\ pc = "done"
  /\ \E g \in google.groups :
       /\ cfg.IgnoreUsers \cap google.members[g] # {}
       /\ \E n \in DOMAIN calls :
            /\ calls[n].op = "AddUserToGroup"
            /\ calls[n].group = g
            /\ calls[n].user \in google.members[g] \ cfg.IgnoreUsers
       /\ \A u \in cfg.IgnoreUsers : <<u, g>> \notin scim.members

(***************************************************************************)
(* Runs with a group on the include list of the configuration              *)
(***************************************************************************)
IncludedGroups == {"eng@x.com"}

includeGroup(c, name) == name \in c.IncludeGroups

InitInclude == InitWith([DefaultCfg EXCEPT !.IncludeGroups = IncludedGroups])

SpecInclude == InitInclude /\ [][Next]_vars

\* C27: with a non-empty include list a run considers only the Google groups
\* on it: no other group is among the groups the read phase keeps, is created,
\* or has a member added; with an empty list the run keeps every Google group
\* that is not ignored.
C27_IncludeList ==
  /\ cfg.IncludeGroups # {} =>
       /\ \A n \in DOMAIN snap.googleGroups : includeGroup(cfg, snap.googleGroups[n].Email)
       /\ \A n \in DOMAIN calls :
            calls[n].op \in {"CreateGroup", "AddUserToGroup"} =>
              includeGroup(cfg, calls[n].group)
  /\ (cfg.IncludeGroups = {} /\ pc \in ApplyPositions) =>
       {snap.googleGroups[n].Email : n \in DOMAIN snap.googleGroups}
         = {g \in google.groups : ~ignoreGroup(cfg, g)}

(***************************************************************************)
(* Two runs at once: an AddUserToGroup of one and a RemoveUserFromGroup of *)
(* the other, each call to a store one step. Here pc holds the position of *)
(* each of the two wrapper calls and whether they overlapped, and snap the *)
(* arguments of the two calls and the result of the membership test of     *)
(* AddUserToGroup; no call fails.                                          *)
(***************************************************************************)
Pairs == UserEmails \X GroupEmails

RaceUser(p) == NewUser("A", "A", p[1], TRUE)

RaceGroup(p) == NewGroup(p[2])

InitRace ==
  /\ \E ms \in SUBSET Pairs :
       /\ scim = [users |-> [u \in UserEmails |-> RaceUser(<<u, "">>)],
                  groups |-> GroupEmails,
                  members |-> ms]
       /\ ddb = [users |-> UserEmails, groups |-> {<<m[2], m[1]>> : m \in ms}]
  /\ \E a, r \in Pairs :
       snap = [add |-> a, remove |-> r, isUserInDynamoDBGroup |-> FALSE]
  /\ pc = [add |-> "check", remove |-> "sso", overlapped |-> FALSE]
  /\ google = EmptyGoogle
  /\ cfg = DefaultCfg
  /\ i = 1
  /\ j = 1
  /\ ops = EmptyOps
  /\ newAwsGroups = <<>>
  /\ calls = <<>>
  /\ errAt = NoError
  /\ faults = 0
  /\ changes = 0
  /\ prevOk = FALSE
  /\ torn = {}
  /\ aborted = FALSE

\* the other call has begun and has not returned
AddInProgress == pc.add \in {"dynamodb", "sso"}

RemoveInProgress == pc.remove = "dynamodb"

RaceFrame ==
  UNCHANGED <<google, cfg, i, j, ops, newAwsGroups, calls, errAt, faults, changes, prevOk,
              torn, aborted>>

\* AddUserToGroup: c.dynamoDBClient.IsUserInGroup(u, g)
RaceAddCheck ==
  /\ pc.add = "check"
  /\ snap' = [snap EXCEPT !.isUserInDynamoDBGroup =
                DdbIsUserInGroup(ddb, RaceUser(snap.add), RaceGroup(snap.add))]
  /\ pc' = [pc EXCEPT !.add = "dynamodb", !.overlapped = pc.overlapped \/ RemoveInProgress]
  /\ UNCHANGED <<scim, ddb>>
  /\ RaceFrame

\* AddUserToGroup: c.dynamoDBClient.AddUserToGroup(u, g), when the test was false
RaceAddDynamoDB ==
  /\ pc.add = "dynamodb"
  /\ ddb' = IF snap.isUserInDynamoDBGroup THEN ddb
            ELSE DdbAddUserToGroup(ddb, RaceUser(snap.add), RaceGroup(snap.add))
  /\ pc' = [pc EXCEPT !.add = "sso"]
  /\ UNCHANGED <<scim, snap>>
  /\ RaceFrame

\* AddUserToGroup: c.client.AddUserToGroup(u, g), and return nil
RaceAddSSO ==
  /\ pc.add = "sso"
  /\ scim' = ScimAddUserToGroup(scim, RaceUser(snap.add), RaceGroup(snap.add))
  /\ pc' = [pc EXCEPT !.add = "returned"]
  /\ UNCHANGED <<ddb, snap>>
  /\ RaceFrame

\* RemoveUserFromGroup: c.client.RemoveUserFromGroup(u, g)
RaceRemoveSSO ==
  /\ pc.remove = "sso"
  /\ scim' = ScimRemoveUserFromGroup(scim, RaceUser(snap.remove), RaceGroup(snap.remove))
  /\ pc' = [pc EXCEPT !.remove = "dynamodb", !.overlapped = pc.overlapped \/ AddInProgress]
  /\ UNCHANGED <<ddb, snap>>
  /\ RaceFrame

\* RemoveUserFromGroup: c.dynamoDBClient.RemoveUserFromGroup(u, g), and return nil
RaceRemoveDynamoDB ==
  /\ pc.remove = "dynamodb"
  /\ ddb' = DdbRemoveUserFromGroup(ddb, RaceUser(snap.remove), RaceGroup(snap.remove))
  /\ pc' = [pc EXCEPT !.remove = "returned"]
  /\ UNCHANGED <<scim, snap>>
  /\ RaceFrame

NextRace ==
  \/ RaceAddCheck
  \/ RaceAddDynamoDB
  \/ RaceAddSSO
  \/ RaceRemoveSSO
  \/ RaceRemoveDynamoDB

SpecRace == InitRace /\ [][NextRace]_vars

\* both calls have returned nil, and they were for the same user and group
BothReturned ==
  /\ pc.add = "returned"
  /\ pc.remove = "returned"
  /\ snap.add = snap.remove

\* the SCIM store and the Groups table disagree on the pair p
Disagree(p) == p \in scim.members <=> <<p[2], p[1]>> \notin ddb.groups

\* C28: an AddUserToGroup and a RemoveUserFromGroup for the same pair that do
\* not overlap leave the two stores in agreement on the pair when both have
\* returned nil (the state in which they overlapped and the stores disagree is
\* C28_Witness).
C28_NoRaceWithoutOverlap == (BothReturned /\ ~pc.overlapped) => ~Disagree(snap.add)

\* the two calls overlapped, both returned nil, and the stores disagree on the
\* pair
C28_Witness == BothReturned /\ pc.overlapped /\ Disagree(snap.add)

(***************************************************************************)
(* The slice awsGroups and the append of line 988. A Go slice is a view of *)
(* the first len elements of a backing array; append writes behind the     *)
(* view when the array has room and copies to a new array when it has not. *)
(* Here snap holds the backing array and the length of awsGroups, the list *)
(* googleGroups and the slice allAwsGroups; ops holds the result of        *)
(* getGroupOperations.                                                     *)
(***************************************************************************)
\* how many elements of room the backing array of awsGroups may have
MaxSpare == 2

\* an element of a backing array behind every view
NilGroup == NewGroup("")

\* append(s, xs...) for the slice s of the first len elements of array: the
\* backing array of s afterwards and the elements of the slice returned
GoAppend(array, len, xs) ==
  IF len + Len(xs) <= Len(array)
  THEN [array |-> [k \in DOMAIN array |->
                     IF k > len /\ k <= len + Len(xs) THEN xs[k - len] ELSE array[k]],
        out |-> SubSeq(array, 1, len) \o xs]
  ELSE [array |-> array, out |-> SubSeq(array, 1, len) \o xs]

\* mutant: allAwsGroups := append(awsGroups[:0], newAwsGroups...)
appendAllAwsGroupsReusesArray(array, len, nag) == GoAppend(array, 0, nag)

\* allAwsGroups := append(awsGroups, newAwsGroups...)
appendAllAwsGroups(array, len, nag) == GoAppend(array, len, nag)

\* the elements of the slice awsGroups
View(s) == SubSeq(s.array, 1, s.len)

GroupLists == UNION {Perms(S) : S \in SUBSET GroupEmails}

InitSlices ==
  /\ \E aws \in GroupLists, ggl \in GroupLists, spare \in 0..MaxSpare :
       snap = [array |-> [n \in DOMAIN aws |-> NewGroup(aws[n])]
                           \o [n \in 1..spare |-> NilGroup],
               len |-> Len(aws),
               googleGroups |-> [n \in DOMAIN ggl |-> GoogleGroup(ggl[n])],
               allAwsGroups |-> <<>>]
  /\ pc = "diffGroups"
  /\ ops = EmptyOps
  /\ newAwsGroups = <<>>
  /\ google = EmptyGoogle
  /\ cfg = DefaultCfg
  /\ scim = EmptyScim
  /\ ddb = EmptyDdb
  /\ i = 1
  /\ j = 1
  /\ calls = <<>>
  /\ errAt = NoError
  /\ faults = 0
  /\ changes = 0
  /\ prevOk = FALSE
  /\ torn = {}
  /\ aborted = FALSE

SlicesFrame ==
  UNCHANGED <<google, cfg, scim, ddb, i, j, calls, errAt, faults, changes, prevOk, torn,
              aborted>>

\* getGroupOperations(awsGroups, googleGroups): it reads its two lists
SliceDiff ==
  /\ pc = "diffGroups"
  /\ LET go == getGroupOperations(View(snap), snap.googleGroups)
     IN ops' = [EmptyOps EXCEPT !.addG = go.add, !.delG = go.delete, !.eqG = go.equals]
  /\ pc' = "addGroups"
  /\ UNCHANGED <<snap, newAwsGroups>>
  /\ SlicesFrame

\* the loop over addAWSGroups, when every CreateGroup returned a group
SliceCreate ==
  /\ pc = "addGroups"
  /\ newAwsGroups' = ops.addG
  /\ pc' = "append"
  /\ UNCHANGED <<snap, ops>>
  /\ SlicesFrame

SliceAppend ==
  /\ pc = "append"
  /\ LET r == appendAllAwsGroups(snap.array, snap.len, newAwsGroups)
     IN snap' = [snap EXCEPT !.array = r.array, !.allAwsGroups = r.out]
  /\ pc' = "populate"
  /\ UNCHANGED <<ops, newAwsGroups>>
  /\ SlicesFrame

NextSlices == SliceDiff \/ SliceCreate \/ SliceAppend

SpecSlices == InitSlices /\ [][NextSlices]_vars

AfterPopulate == {"equalAdd", "equalRemove", "delGroups", "done"}

\* the run issued, in the populate loop, the SCIM write of AddUserToGroup for
\* the user u and the group g
PopulateAdded(u, g) ==
  \E n \in DOMAIN calls :
    /\ calls[n].step = 5
    /\ calls[n].op = "AddUserToGroup"
    /\ calls[n].store = "scim"
    /\ calls[n].user = u
    /\ calls[n].group = g

\* the keys of the groups the populate loop ranges over
PopulateKeys ==
  {awsGroupKey(newAwsGroups[n]) : n \in DOMAIN newAwsGroups}
    \cup {awsGroupKey(snap.awsGroups[n]) : n \in DOMAIN snap.awsGroups}

\* C30: the populate loop calls AddUserToGroup for every member of every Google
\* group whose key is the key of a created group or of a group of the
\* downstream snapshot, member already or not, and for no group whose key is
\* not the key of a Google group.
C30_PopulateScope ==
  /\ pc \in AfterPopulate =>
       \A g \in PopulateKeys \cap DOMAIN snap.googleGroupsUsers :
         \A u \in PrimaryEmails(snap.googleGroupsUsers[g]) : PopulateAdded(u, g)
  /\ \A n \in DOMAIN calls :
       (calls[n].step = 5 /\ calls[n].op = "AddUserToGroup") =>
         /\ calls[n].group \in DOMAIN snap.googleGroupsUsers
         /\ calls[n].user \in PrimaryEmails(snap.googleGroupsUsers[calls[n].group])

\* a completed run that added again a user the snapshot already had in an
\* equal group, and passed over a downstream group that is gone upstream
C30_Witness ==
  /\ pc = "done"
  /\ \E g \in DOMAIN snap.awsGroupsUsers \cap DOMAIN snap.googleGroupsUsers :
       \E u \in Usernames(snap.awsGroupsUsers[g]) : PopulateAdded(u, g)
  /\ \E g \in DOMAIN snap.awsGroupsUsers \ DOMAIN snap.googleGroupsUsers :
       /\ snap.awsGroupsUsers[g] # <<>>
       /\ \A u \in UserEmails : ~PopulateAdded(u, g)

(***************************************************************************)
(* Claims about what a completed run leaves for the next run               *)
(***************************************************************************)
\* the keys of the groups the read phase of the next run lists: GetGroups on
\* the stores as the run leaves them (nothing writes them between two runs)
NextRunGroupKeys ==
  UNION {GroupKeys(awsGetGroups(scim, names).groups) : names \in Perms(DdbGroupNames(ddb))}

\* C31: when a run has completed without error, every group it created is
\* among the groups GetGroups lists for the next run, a group without members
\* included.
C31_CreatedGroupsVisible ==
  pc = "done" =>
    \A n \in DOMAIN newAwsGroups : awsGroupKey(newAwsGroups[n]) \in NextRunGroupKeys

(***************************************************************************)
(* Claims about the calls of one run                                       *)
(***************************************************************************)
\* C32: a run that has called DeleteUser for a user in its delete-users loop
\* does not call RemoveUserFromGroup for that user and any group afterwards
\* (the calls of the equal-groups loop; the rows DeleteGroup removes from the
\* Groups table are not calls of the run).
C32_NoRemovalOfDeletedUser ==
  \A m, n \in DOMAIN calls :
    (/\ m < n
     /\ calls[m].step = 1
     /\ calls[m].op = "DeleteUser")
      => ~(/\ calls[n].step = 6
           /\ calls[n].op = "RemoveUserFromGroup"
           /\ calls[n].user = calls[m].user)

(***************************************************************************)
(* SpecAgree: runs that start from any SCIM store and any tables that hold *)
(* the same users and the same memberships, with an upstream directory     *)
(* that is not edited                                                      *)
(***************************************************************************)
\* the two stores hold the same users and the same pairs of user and group, and
\* every row of the Groups table names a user and a group of the SCIM store
StoresAgree ==
  /\ DOMAIN scim.users = ddb.users
  /\ {<<m[2], m[1]>> : m \in scim.members} = ddb.groups
  /\ \A r \in ddb.groups : r[1] \in scim.groups /\ r[2] \in DOMAIN scim.users

InitAgreeWith(c) ==
  /\ \E gs \in SUBSET GroupEmails, ms \in [GroupEmails -> SUBSET UserEmails] :
       /\ \A g \in GroupEmails \ gs : ms[g] = {}
       /\ google = [EmptyGoogle EXCEPT !.groups = gs, !.members = ms]
  /\ cfg = c
  /\ \E us \in SUBSET UserEmails, gs \in SUBSET GroupEmails :
     \E ms \in SUBSET (us \X gs), active \in [us -> BOOLEAN] :
       /\ scim = [users |-> [u \in us |-> NewUser("A", "A", u, active[u])],
                  groups |-> gs, members |-> ms]
       /\ ddb = [users |-> us, groups |-> {<<m[2], m[1]>> : m \in ms}]
  /\ pc = "idle"
  /\ i = 1
  /\ j = 1
  /\ snap = EmptySnap
  /\ ops = EmptyOps
  /\ newAwsGroups = <<>>
  /\ calls = <<>>
  /\ errAt = NoError
  /\ faults = 0
  /\ changes = 0
  /\ prevOk = FALSE
  /\ torn = {}
  /\ aborted = FALSE

InitAgree == InitAgreeWith(DefaultCfg)

NextAgree ==
  \/ ReadPhase
  \/ DeleteUsers
  \/ UpdateUsers
  \/ CreateUsers
  \/ CreateGroups
  \/ Populate
  \/ EqualGroupsAdd
  \/ EqualGroupsRemove
  \/ DeleteGroups
  \/ Return

SpecAgree == InitAgree /\ [][NextAgree]_vars

\* no run has returned yet: the run is the one that found the initial stores
FirstRun == ~prevOk /\ ~aborted

\* C33: a run that found the two stores holding the same users and the same
\* memberships and has completed without error leaves them holding the same
\* users and the same memberships, and no row of the Groups table names a user
\* or a group the SCIM store lacks.
C33_StoresAgreeAfterRun ==
  (pc = "done" /\ FirstRun) => StoresAgree

\* a first run that deleted a user, removed a membership and added one, and
\* completed
C33_Witness ==
  /\ pc = "done"
  /\ FirstRun
  /\ StoresAgree
  /\ \E n \in DOMAIN calls : calls[n].op = "DeleteUser"
  /\ \E n \in DOMAIN calls : calls[n].op = "RemoveUserFromGroup" /\ calls[n].step = 6
  /\ \E n \in DOMAIN calls : calls[n].op = "AddUserToGroup" /\ calls[n].store = "ddb"

(***************************************************************************)
(* Claims about a user operation that returns an error                     *)
(***************************************************************************)
\* the step is a call of awsClient.CreateUser that returned an error
CreateUserFailed == pc = "addUsers" /\ pc' = "failed"

\* the step is a call of awsClient.DeleteUser that returned an error (a failed
\* lookup before it issues no call)
DeleteUserFailed == pc = "delUsers" /\ pc' = "failed" /\ Len(calls') > Len(calls)

\* C34: when awsClient.CreateUser returns an error the user is in neither
\* store, and when awsClient.DeleteUser returns an error the user is in both.
C34_NoHalfWrittenUser ==
  /\ [][CreateUserFailed =>
          /\ ops.addU[i].Username \notin DOMAIN scim'.users
          /\ ops.addU[i].Username \notin ddb'.users]_vars
  /\ [][DeleteUserFailed =>
          /\ ops.delU[i].Username \in DOMAIN scim'.users
          /\ ops.delU[i].Username \in ddb'.users]_vars

(***************************************************************************)
(* Claims about the membership calls of one run                            *)
(***************************************************************************)
\* the run issued this membership operation for the user u and the group g
MembershipCall(op, u, g) ==
  \E n \in DOMAIN calls :
    /\ calls[n].op = op
    /\ calls[n].user = u
    /\ calls[n].group = g

\* C35: no run issues both AddUserToGroup and RemoveUserFromGroup for the same
\* user and group.
C35_NoPairAddedAndRemoved ==
  \A u \in UserEmails, g \in GroupEmails :
    ~(MembershipCall("AddUserToGroup", u, g) /\ MembershipCall("RemoveUserFromGroup", u, g))

\* a completed run that added one user to a group and removed another from it
C35_Witness ==
  /\ pc = "done"
  /\ \E g \in GroupEmails :
     \E u, v \in UserEmails :
       /\ u # v
       /\ MembershipCall("AddUserToGroup", u, g)
       /\ \E n \in DOMAIN calls :
            /\ calls[n].step = 6
            /\ calls[n].op = "RemoveUserFromGroup"
            /\ calls[n].user = v
            /\ calls[n].group = g

(***************************************************************************)
(* SpecGroupsTable: the read of the downstream users in the revision of    *)
(* SyncGroupsUsers that reads the groups with their members from DynamoDB  *)
(* (GetGroupsWithMembers), followed by the two diffs                       *)
(***************************************************************************)
\* the groups GetGroupsWithMembers returns: each group once, each with a list
\* of member emails that names a user at most once
GroupsWithMembers ==
  {[n \in DOMAIN ks |-> [DisplayName |-> ks[n], Members |-> m[ks[n]]]] :
     ks \in DistinctSeqs(GroupEmails), m \in [GroupEmails -> DistinctSeqs(UserEmails)]}

\* the lists getGoogleGroupsAndUsers returns: each user once
UniqueGoogleUserLists ==
  {[n \in DOMAIN ks |-> GoogleUser(ks[n], "A", "A", FALSE)] : ks \in DistinctSeqs(UserEmails)}

\* awsUserEmails: the members of every group, one list after the other
RECURSIVE awsUserEmails(_)
awsUserEmails(awsGroups) ==
  IF awsGroups = <<>> THEN <<>>
  ELSE awsGroups[1].Members \o awsUserEmails(Tail(awsGroups))

InitGroupsTable ==
  /\ \E g \in UniqueGoogleUserLists, a \in GroupsWithMembers :
       snap = [EmptySnap EXCEPT !.googleUsers = g, !.awsGroups = a]
  /\ google = EmptyGoogle
  /\ cfg = DefaultCfg
  /\ \E us \in SUBSET UserEmails :
       scim = [EmptyScim EXCEPT !.users = [u \in us |-> NewUser("A", "A", u, TRUE)]]
  /\ ddb = EmptyDdb
  /\ pc = "read"
  /\ i = 1
  /\ j = 1
  /\ ops = EmptyOps
  /\ newAwsGroups = <<>>
  /\ calls = <<>>
  /\ errAt = NoError
  /\ faults = 0
  /\ changes = 0
  /\ prevOk = FALSE
  /\ torn = {}
  /\ aborted = FALSE

\* awsUsers: FindUserByEmail of every email of awsUserEmails; the run returns
\* the error of the first lookup that fails
ReadAwsUsers ==
  /\ pc = "read"
  /\ LET emails == awsUserEmails(snap.awsGroups)
     IN IF \A n \in DOMAIN emails : ScimHasUser(scim, emails[n])
        THEN /\ snap' = [snap EXCEPT !.awsUsers =
                           [n \in DOMAIN emails |-> scim.users[emails[n]]]]
             /\ pc' = "diff"
             /\ errAt' = errAt
        ELSE /\ snap' = snap
             /\ pc' = "failed"
             /\ errAt' = 0
  /\ UNCHANGED <<google, cfg, scim, ddb, i, j, ops, newAwsGroups, calls,
                 faults, changes, prevOk, torn, aborted>>

NextGroupsTable ==
  \/ ReadAwsUsers
  \/ Diff

SpecGroupsTable == InitGroupsTable /\ [][NextGroupsTable]_vars

\* the list names no user twice
NoKeyTwice(list) ==
  \A m, n \in DOMAIN list : list[m].Username = list[n].Username => m = n

\* C36: in every run each user key is at most once in the users to add, at most
\* once in the users to update and at most once in the users to delete, also
\* when the user is a member of several groups.
C36_OneOperationPerKey ==
  /\ NoKeyTwice(ops.addU)
  /\ NoKeyTwice(ops.updU)
  /\ NoKeyTwice(ops.delU)

(***************************************************************************)
(* SpecIgnoreAgree: the runs of SpecAgree with a@x.com in IgnoreUsers; the *)
(* stores the first run finds may hold the ignored user                    *)
(***************************************************************************)
InitIgnoreAgree == InitAgreeWith([DefaultCfg EXCEPT !.IgnoreUsers = IgnoredUsers])

SpecIgnoreAgree == InitIgnoreAgree /\ [][NextAgree]_vars

\* C37: no run calls DeleteUser, UpdateUser or RemoveUserFromGroup for a user
\* whose email is in IgnoreUsers.
C37_IgnoredLeftAlone ==
  \A n \in DOMAIN calls :
    calls[n].op \in {"DeleteUser", "UpdateUser", "RemoveUserFromGroup"}
      => ~ignoreUser(cfg, calls[n].user)

====
